---- MODULE Spec2Model ----
(***************************************************************************)
(* X-Ray execution tracing: the in-memory trace store behind the FastAPI   *)
(* endpoints (backend/main.py, backend/storage.py, backend/models.py) and  *)
(* the session client that drives it (sdk/xray.py).                        *)
(*                                                                         *)
(* Python objects are modelled by reference: a Step object is named by its *)
(* step_id, the step index storage.steps maps that id to the object's      *)
(* fields, and an execution's step list holds the ids of the objects it    *)
(* references, so an update through one path is seen through the other.    *)
(***************************************************************************)
EXTENDS Integers, Sequences, FiniteSets, TLC

\* ------------------------------------------------------------------ bounds
MaxExecs == 1
MaxSteps == 2
MaxEvals == 2
MaxClock == 2
NumCallers == 2
MaxCalls == 2

\* Python's None for optional ids, timestamps and counts (never a real value:
\* ids and timestamps start at 1).
None == 0

\* an absent or empty status query parameter (both are falsy in the handler)
NoStatus == ""

DefaultLimit == 100

Times == 1..MaxClock
OptTimes == {None} \cup Times

\* status strings a caller can send: the initial one, a documented terminal
\* one and one that is not documented (the parameter is a free string)
StatusInputs == {"running", "completed", "cancelled"}

\* metadata dictionaries a caller can send with CreateExecution
MetadataInputs == { [environment |-> "prod"] }

\* evaluation payloads: two verdicts on the same entity
EvalInputs ==
  { [entity_id |-> "e1", value |-> 1, passed |-> TRUE,  reason |-> "ok"],
    [entity_id |-> "e1", value |-> 2, passed |-> FALSE, reason |-> "low"] }

\* step creation payloads
StepInputs == { [name |-> "filter", type |-> "filter", input |-> 1, rules |-> <<>>] }

\* output dictionaries of an UpdateStep request: absent (None), empty, a
\* declared StepOutput field, and a key StepOutput does not declare
NoDict == [some |-> FALSE, dict |-> <<>>]
OutputInputs ==
  { NoDict,
    [some |-> TRUE, dict |-> <<>>],
    [some |-> TRUE, dict |-> [passed |-> 2]],
    [some |-> TRUE, dict |-> [filtered_count |-> 2]] }

VARIABLES
  executions,      \* storage.executions: execution_id -> Execution
  steps,           \* storage.steps: step_id -> Step
  nextId,          \* the uuid4 source: the next fresh identifier
  now,             \* the server clock read by datetime.utcnow()
  resp,            \* the response to the last request the server handled
  stepLog,         \* history: per execution, the step ids of its successful CreateStep calls
  evalLog,         \* history: per step, the payloads of its successful AddEvaluation calls
  written,         \* history: the metadata, step and output payloads of the successful writes
  execution_id,    \* XRay.execution_id
  current_step_id, \* XRay.current_step_id
  scopes,          \* the with-blocks of StepContext the program is inside of, innermost last
  exc,             \* the exception in flight in the innermost with-block's body
  result,          \* how the last call on the XRay client ended
  pending,         \* per concurrent caller: the request it is waiting on
  loop,            \* the handler the server's event loop is in the middle of
  calls,           \* per concurrent caller: the AddEvaluation requests sent
  sent,            \* history: per concurrent caller, its answered AddEvaluation calls
  frame,           \* the call of a helper, wrapper or runner the program is inside of
  step_handlers    \* StepRunner._step_handlers: the step types that have a handler

storeVars == <<executions, steps, nextId>>
logVars == <<stepLog, evalLog, written>>
clientVars == <<execution_id, current_step_id, scopes, exc, result>>
concVars == <<pending, loop, calls, sent>>
runVars == <<frame, step_handlers>>
vars == <<executions, steps, nextId, now, resp, stepLog, evalLog, written,
          execution_id, current_step_id, scopes, exc, result,
          pending, loop, calls, sent, frame, step_handlers>>

\* ------------------------------------------------------------ data model

\* StepOutput(): every field defaults to None
EmptyStepOutput == [passed |-> None, failed |-> None, selected_ids |-> None, data |-> None]

DictGet(d, k) == IF k \in DOMAIN d THEN d[k] ELSE None

\* StepOutput(**d): the declared fields are taken from d, every other key of d
\* is ignored
StepOutput(d) ==
  [passed       |-> DictGet(d, "passed"),
   failed       |-> DictGet(d, "failed"),
   selected_ids |-> DictGet(d, "selected_ids"),
   data         |-> DictGet(d, "data")]

\* ExecutionMetadata(**d)
ExecutionMetadata(d) ==
  [environment |-> DictGet(d, "environment"),
   trigger     |-> DictGet(d, "trigger"),
   user        |-> DictGet(d, "user"),
   version     |-> DictGet(d, "version")]

\* Step(step_id=..., execution_id=..., name=..., ...)
Step(sid, eid, req, t) ==
  [step_id      |-> sid,
   execution_id |-> eid,
   name         |-> req.name,
   type         |-> req.type,
   input        |-> req.input,
   rules        |-> req.rules,
   evaluations  |-> <<>>,
   output       |-> EmptyStepOutput,
   started_at   |-> t,
   ended_at     |-> None]

\* (mutation) ended_at has the default of started_at: the time of creation
ExecutionStamped(eid, name, md, t) ==
  [execution_id |-> eid,
   name         |-> name,
   status       |-> "running",
   started_at   |-> t,
   ended_at     |-> t,
   metadata     |-> md,
   steps        |-> <<>>]

\* Execution(name=..., metadata=...)
Execution(eid, name, md, t) ==
  [execution_id |-> eid,
   name         |-> name,
   status       |-> "running",
   started_at   |-> t,
   ended_at     |-> None,
   metadata     |-> md,
   steps        |-> <<>>]

\* the JSON of an Execution: its step list with every step's content
SerializeExecution(exs, sts, eid) ==
  [exs[eid] EXCEPT !.steps = [i \in DOMAIN exs[eid].steps |-> sts[exs[eid].steps[i]]]]

SerializeSteps(exs, sts, eid) ==
  [i \in DOMAIN exs[eid].steps |-> sts[exs[eid].steps[i]]]

\* a handled request and its response: the endpoint, the request's arguments,
\* the HTTP status code and the JSON body
Response(op, req, code, body) == [op |-> op, req |-> req, code |-> code, body |-> body]

\* no response outstanding: the caller is free to send its next request
NoResponse == Response("none", <<>>, None, <<>>)

\* raise HTTPException(status_code=404, detail=...): the body of the answer
HTTPException(detail) == [detail |-> detail]

\* --------------------------------------------------------------- storage

\* InMemoryStorage.create_execution
storage_create_execution(exs, e) == exs @@ (e.execution_id :> e)

\* the loop of update_execution / update_step: setattr(obj, key, value) for
\* every keyword argument that names an attribute of the object
SetAttrs(obj, kwargs) ==
  [f \in DOMAIN obj |-> IF f \in DOMAIN kwargs THEN kwargs[f] ELSE obj[f]]

\* (mutation) an execution set to running starts again: started_at is stamped
\* with the server clock
storage_update_execution_restarting(exs, eid, kwargs) ==
  [exs EXCEPT ![eid] =
     [SetAttrs(@, kwargs) EXCEPT
        !.started_at = IF "status" \in DOMAIN kwargs /\ kwargs["status"] = "running"
                          THEN now ELSE @]]

\* InMemoryStorage.update_execution (the execution is known to be stored)
storage_update_execution(exs, eid, kwargs) ==
  [exs EXCEPT ![eid] = SetAttrs(@, kwargs)]

\* InMemoryStorage.add_step, first statement: self.steps[step.step_id] = step
storage_add_step_index(sts, s) == sts @@ (s.step_id :> s)

\* (mutation) the step is put in front of the list
storage_add_step_prepend(exs, eid, s) ==
  IF eid \in DOMAIN exs
    THEN [exs EXCEPT ![eid].steps = <<s.step_id>> \o @]
    ELSE exs

\* InMemoryStorage.add_step, second statement: execution.steps.append(step)
storage_add_step_append(exs, eid, s) ==
  IF eid \in DOMAIN exs
    THEN [exs EXCEPT ![eid].steps = Append(@, s.step_id)]
    ELSE exs

\* (mutation) the step is rebuilt from the update: its evaluations are lost
storage_update_step_rebuild(sts, sid, kwargs) ==
  [sts EXCEPT ![sid] = SetAttrs([@ EXCEPT !.evaluations = <<>>], kwargs)]

\* (mutation) the storage defaults ended_at: an update that supplies none
\* stamps the step with the clock
storage_update_step_defaulting(sts, sid, kwargs) ==
  [sts EXCEPT ![sid] = SetAttrs(@, kwargs @@ ("ended_at" :> now))]

\* InMemoryStorage.update_step (the step is known to be stored)
storage_update_step(sts, sid, kwargs) ==
  [sts EXCEPT ![sid] = SetAttrs(@, kwargs)]

\* (mutation) one evaluation per entity: a later one replaces the earlier one
ReplaceEvaluation(evs, ev) ==
  IF \E i \in DOMAIN evs : evs[i].entity_id = ev.entity_id
    THEN [i \in DOMAIN evs |-> IF evs[i].entity_id = ev.entity_id THEN ev ELSE evs[i]]
    ELSE Append(evs, ev)

\* step.evaluations.append(evaluation)
AppendEvaluation(evs, ev) == Append(evs, ev)

\* ------------------------------------------------------------- endpoints
\* Every handler is an `async def` without an await: it runs from its first
\* statement to its return with no other handler in between.

\* a dict with one entry, or none
Kw(cond, key, val) == IF cond THEN (key :> val) ELSE <<>>

\* POST /api/executions
create_execution(name, md) ==
  LET e == Execution(nextId, name, ExecutionMetadata(md), now) IN
  /\ executions' = storage_create_execution(executions, e)
  /\ nextId' = nextId + 1
  /\ steps' = steps
  /\ resp' = Response("create_execution", [name |-> name, metadata |-> md], 200,
                      SerializeExecution(executions', steps', nextId))

\* executions.sort(key=started_at, reverse=True): stable, so executions with
\* equal started_at keep their insertion order (ids are issued in that order)
RECURSIVE SortedByStart(_, _)
SortedByStart(exs, ids) ==
  IF ids = {} THEN <<>>
  ELSE LET first == CHOOSE i \in ids :
                      \A j \in ids \ {i} :
                         \/ exs[i].started_at > exs[j].started_at
                         \/ exs[i].started_at = exs[j].started_at /\ i < j
       IN <<first>> \o SortedByStart(exs, ids \ {first})

\* executions[:limit] for limit >= 0
Truncate(seq, limit) == SubSeq(seq, 1, IF limit < Len(seq) THEN limit ELSE Len(seq))

\* (mutation) the executions are returned as the dict holds them, in insertion
\* order (ids are issued in that order), without the sort
storage_list_executions_unsorted(exs, limit) ==
  Truncate([i \in 1..Cardinality(DOMAIN exs) |->
              CHOOSE e \in DOMAIN exs : Cardinality({d \in DOMAIN exs : d < e}) = i - 1],
           limit)

\* InMemoryStorage.list_executions
storage_list_executions(exs, limit) == Truncate(SortedByStart(exs, DOMAIN exs), limit)

\* (mutation) the storage keeps the listed executions only
list_executions_truncating(limit) ==
  LET ids == storage_list_executions(executions, limit) IN
  /\ executions' = [e \in {ids[i] : i \in DOMAIN ids} |-> executions[e]]
  /\ UNCHANGED <<steps, nextId>>
  /\ resp' = Response("list_executions", [limit |-> limit], 200,
                      [i \in DOMAIN ids |-> SerializeExecution(executions, steps, ids[i])])

\* GET /api/executions
list_executions(limit) ==
  /\ UNCHANGED storeVars
  /\ resp' = Response("list_executions", [limit |-> limit], 200,
         LET ids == storage_list_executions(executions, limit)
         IN [i \in DOMAIN ids |-> SerializeExecution(executions, steps, ids[i])])

\* GET /api/executions/{execution_id}
get_execution(eid) ==
  /\ UNCHANGED storeVars
  /\ resp' = IF eid \in DOMAIN executions
               THEN Response("get_execution", [id |-> eid], 200, SerializeExecution(executions, steps, eid))
               ELSE Response("get_execution", [id |-> eid], 404, HTTPException("Execution not found"))

\* (mutation) the ended_at parameter is not passed on to the storage
update_execution_status_only(eid, status, ended_at) ==
  LET updates == Kw(status # NoStatus, "status", status) IN
  IF eid \in DOMAIN executions
    THEN /\ executions' = storage_update_execution(executions, eid, updates)
         /\ UNCHANGED <<steps, nextId>>
         /\ resp' = Response("update_execution", [id |-> eid, status |-> status, ended_at |-> ended_at], 200,
                             SerializeExecution(executions', steps', eid))
    ELSE /\ UNCHANGED storeVars
         /\ resp' = Response("update_execution", [id |-> eid, status |-> status, ended_at |-> ended_at], 404, HTTPException("Execution not found"))

\* (mutation) a status that is not one of running, completed and failed is
\* stored as failed
update_execution_validating(eid, status, ended_at) ==
  LET known == IF status \in {"running", "completed", "failed"} THEN status ELSE "failed"
      updates == Kw(status # NoStatus, "status", known)
                   @@ Kw(ended_at # None, "ended_at", ended_at) IN
  IF eid \in DOMAIN executions
    THEN /\ executions' = storage_update_execution(executions, eid, updates)
         /\ UNCHANGED <<steps, nextId>>
         /\ resp' = Response("update_execution", [id |-> eid, status |-> status, ended_at |-> ended_at], 200,
                             SerializeExecution(executions', steps', eid))
    ELSE /\ UNCHANGED storeVars
         /\ resp' = Response("update_execution", [id |-> eid, status |-> status, ended_at |-> ended_at], 404,
                             HTTPException("Execution not found"))

\* (mutation) ended_at is passed on to the storage even when it is None
update_execution_clearing(eid, status, ended_at) ==
  LET updates == Kw(status # NoStatus, "status", status) @@ ("ended_at" :> ended_at) IN
  IF eid \in DOMAIN executions
    THEN /\ executions' = storage_update_execution(executions, eid, updates)
         /\ UNCHANGED <<steps, nextId>>
         /\ resp' = Response("update_execution", [id |-> eid, status |-> status, ended_at |-> ended_at], 200,
                             SerializeExecution(executions', steps', eid))
    ELSE /\ UNCHANGED storeVars
         /\ resp' = Response("update_execution", [id |-> eid, status |-> status, ended_at |-> ended_at], 404,
                             HTTPException("Execution not found"))

\* (mutation) a status other than running stamps ended_at with the server clock
\* when the request supplies none
update_execution_autostamp(eid, status, ended_at) ==
  LET updates == Kw(status # NoStatus, "status", status)
                   @@ Kw(ended_at # None, "ended_at", ended_at)
                   @@ Kw(status \notin {NoStatus, "running"}, "ended_at", now) IN
  IF eid \in DOMAIN executions
    THEN /\ executions' = storage_update_execution(executions, eid, updates)
         /\ UNCHANGED <<steps, nextId>>
         /\ resp' = Response("update_execution", [id |-> eid, status |-> status, ended_at |-> ended_at], 200,
                             SerializeExecution(executions', steps', eid))
    ELSE /\ UNCHANGED storeVars
         /\ resp' = Response("update_execution", [id |-> eid, status |-> status, ended_at |-> ended_at], 404,
                             HTTPException("Execution not found"))

\* (mutation) a terminal-state lock: the status of an execution that is not
\* running cannot be changed, the request is refused with 409
update_execution_locked(eid, status, ended_at) ==
  LET updates == Kw(status # NoStatus, "status", status)
                   @@ Kw(ended_at # None, "ended_at", ended_at) IN
  IF eid \notin DOMAIN executions
    THEN /\ UNCHANGED storeVars
         /\ resp' = Response("update_execution", [id |-> eid, status |-> status, ended_at |-> ended_at], 404,
                             HTTPException("Execution not found"))
  ELSE IF status # NoStatus /\ executions[eid].status # "running"
    THEN /\ UNCHANGED storeVars
         /\ resp' = Response("update_execution", [id |-> eid, status |-> status, ended_at |-> ended_at], 409,
                             HTTPException("Execution is finalized"))
    ELSE /\ executions' = storage_update_execution(executions, eid, updates)
         /\ UNCHANGED <<steps, nextId>>
         /\ resp' = Response("update_execution", [id |-> eid, status |-> status, ended_at |-> ended_at], 200,
                             SerializeExecution(executions', steps', eid))

\* PATCH /api/executions/{execution_id}
update_execution(eid, status, ended_at) ==
  LET updates == Kw(status # NoStatus, "status", status)
                   @@ Kw(ended_at # None, "ended_at", ended_at) IN
  IF eid \in DOMAIN executions
    THEN /\ executions' = storage_update_execution(executions, eid, updates)
         /\ UNCHANGED <<steps, nextId>>
         /\ resp' = Response("update_execution", [id |-> eid, status |-> status, ended_at |-> ended_at], 200,
                             SerializeExecution(executions', steps', eid))
    ELSE /\ UNCHANGED storeVars
         /\ resp' = Response("update_execution", [id |-> eid, status |-> status, ended_at |-> ended_at], 404, HTTPException("Execution not found"))

\* (mutation) the execution is not looked up before the step is stored
create_step_unchecked(eid, req) ==
  LET s == Step(nextId, eid, req, now) IN
  /\ steps' = storage_add_step_index(steps, s)
  /\ executions' = storage_add_step_append(executions, eid, s)
  /\ nextId' = nextId + 1
  /\ resp' = Response("create_step", [id |-> eid, body |-> req], 200, steps'[s.step_id])

\* (mutation) an execution that is not running takes no new step: the request
\* is refused with 409
create_step_frozen(eid, req) ==
  IF eid \notin DOMAIN executions
    THEN /\ UNCHANGED storeVars
         /\ resp' = Response("create_step", [id |-> eid, body |-> req], 404, HTTPException("Execution not found"))
  ELSE IF executions[eid].status # "running"
    THEN /\ UNCHANGED storeVars
         /\ resp' = Response("create_step", [id |-> eid, body |-> req], 409, HTTPException("Execution is finalized"))
    ELSE LET s == Step(nextId, eid, req, now) IN
         /\ steps' = storage_add_step_index(steps, s)
         /\ executions' = storage_add_step_append(executions, eid, s)
         /\ nextId' = nextId + 1
         /\ resp' = Response("create_step", [id |-> eid, body |-> req], 200, steps'[s.step_id])

\* POST /api/executions/{execution_id}/steps
create_step(eid, req) ==
  IF eid \notin DOMAIN executions
    THEN /\ UNCHANGED storeVars
         /\ resp' = Response("create_step", [id |-> eid, body |-> req], 404, HTTPException("Execution not found"))
    ELSE LET s == Step(nextId, eid, req, now) IN
         /\ steps' = storage_add_step_index(steps, s)
         /\ executions' = storage_add_step_append(executions, eid, s)
         /\ nextId' = nextId + 1
         /\ resp' = Response("create_step", [id |-> eid, body |-> req], 200, steps'[s.step_id])

\* GET /api/executions/{execution_id}/steps
list_steps(eid) ==
  /\ UNCHANGED storeVars
  /\ resp' = IF eid \in DOMAIN executions
               THEN Response("list_steps", [id |-> eid], 200, SerializeSteps(executions, steps, eid))
               ELSE Response("list_steps", [id |-> eid], 404, HTTPException("Execution not found"))

\* GET /api/steps/{step_id}
get_step(sid) ==
  /\ UNCHANGED storeVars
  /\ resp' = IF sid \in DOMAIN steps
               THEN Response("get_step", [id |-> sid], 200, steps[sid])
               ELSE Response("get_step", [id |-> sid], 404, HTTPException("Step not found"))

\* (mutation) ended_at is set only when the request supplies it
update_step_no_default(sid, req) ==
  LET updates == Kw(req.output.some /\ req.output.dict # <<>>, "output", StepOutput(req.output.dict))
                   @@ Kw(req.ended_at # None, "ended_at", req.ended_at) IN
  IF sid \in DOMAIN steps
    THEN /\ steps' = storage_update_step(steps, sid, updates)
         /\ UNCHANGED <<executions, nextId>>
         /\ resp' = Response("update_step", [id |-> sid, body |-> req], 200, steps'[sid])
    ELSE /\ UNCHANGED storeVars
         /\ resp' = Response("update_step", [id |-> sid, body |-> req], 404, HTTPException("Step not found"))

\* (mutation) the output supplied is merged into the stored one: a field the
\* request does not name keeps its value
update_step_merging(sid, req) ==
  LET merged == [f \in DOMAIN EmptyStepOutput |->
                   IF f \in DOMAIN req.output.dict THEN req.output.dict[f]
                   ELSE steps[sid].output[f]]
      updates == Kw(req.output.some /\ req.output.dict # <<>>, "output", merged)
                   @@ ("ended_at" :> IF req.ended_at # None THEN req.ended_at ELSE now) IN
  IF sid \in DOMAIN steps
    THEN /\ steps' = storage_update_step(steps, sid, updates)
         /\ UNCHANGED <<executions, nextId>>
         /\ resp' = Response("update_step", [id |-> sid, body |-> req], 200, steps'[sid])
    ELSE /\ UNCHANGED storeVars
         /\ resp' = Response("update_step", [id |-> sid, body |-> req], 404, HTTPException("Step not found"))

\* (mutation) the server clock closes a step once: a request without ended_at
\* leaves an ended_at that is already set
update_step_keeping(sid, req) ==
  LET updates == Kw(req.output.some /\ req.output.dict # <<>>, "output", StepOutput(req.output.dict))
                   @@ Kw(req.ended_at # None, "ended_at", req.ended_at)
                   @@ Kw(sid \in DOMAIN steps /\ steps[sid].ended_at = None, "ended_at", now) IN
  IF sid \in DOMAIN steps
    THEN /\ steps' = storage_update_step(steps, sid, updates)
         /\ UNCHANGED <<executions, nextId>>
         /\ resp' = Response("update_step", [id |-> sid, body |-> req], 200, steps'[sid])
    ELSE /\ UNCHANGED storeVars
         /\ resp' = Response("update_step", [id |-> sid, body |-> req], 404, HTTPException("Step not found"))

\* PATCH /api/steps/{step_id}
update_step(sid, req) ==
  LET updates == Kw(req.output.some /\ req.output.dict # <<>>, "output", StepOutput(req.output.dict))
                   @@ ("ended_at" :> IF req.ended_at # None THEN req.ended_at ELSE now) IN
  IF sid \in DOMAIN steps
    THEN /\ steps' = storage_update_step(steps, sid, updates)
         /\ UNCHANGED <<executions, nextId>>
         /\ resp' = Response("update_step", [id |-> sid, body |-> req], 200, steps'[sid])
    ELSE /\ UNCHANGED storeVars
         /\ resp' = Response("update_step", [id |-> sid, body |-> req], 404, HTTPException("Step not found"))

\* (mutation) a missing step is created on the fly
add_evaluation_upsert(sid, ev) ==
  LET base == IF sid \in DOMAIN steps THEN steps
              ELSE steps @@ (sid :> Step(sid, None, [name |-> "", type |-> "default", input |-> None, rules |-> <<>>], now))
  IN /\ steps' = [base EXCEPT ![sid].evaluations = AppendEvaluation(@, ev)]
     /\ UNCHANGED <<executions, nextId>>
     /\ resp' = Response("add_evaluation", [id |-> sid, body |-> ev], 200, steps'[sid])

\* (mutation) an evaluation touches the step: ended_at is stamped with the
\* server clock, as update_step does
add_evaluation_touching(sid, ev) ==
  IF sid \notin DOMAIN steps
    THEN /\ UNCHANGED storeVars
         /\ resp' = Response("add_evaluation", [id |-> sid, body |-> ev], 404, HTTPException("Step not found"))
    ELSE /\ steps' = [steps EXCEPT ![sid].evaluations = AppendEvaluation(@, ev),
                                   ![sid].ended_at = now]
         /\ UNCHANGED <<executions, nextId>>
         /\ resp' = Response("add_evaluation", [id |-> sid, body |-> ev], 200, steps'[sid])

\* POST /api/steps/{step_id}/evaluations
add_evaluation(sid, ev) ==
  IF sid \notin DOMAIN steps
    THEN /\ UNCHANGED storeVars
         /\ resp' = Response("add_evaluation", [id |-> sid, body |-> ev], 404, HTTPException("Step not found"))
    ELSE /\ steps' = [steps EXCEPT ![sid].evaluations = AppendEvaluation(@, ev)]
         /\ UNCHANGED <<executions, nextId>>
         /\ resp' = Response("add_evaluation", [id |-> sid, body |-> ev], 200, steps'[sid])

\* ---------------------------------------------------------------- history
\* What a caller of the API knows it has done: bookkeeping of the successful
\* CreateExecution, CreateStep, AddEvaluation and UpdateStep calls, written
\* from the requests and their responses only. An UpdateStep whose output is
\* absent or empty asks for no change of the output and is not recorded.

LogAfter ==
  /\ stepLog' =
       IF resp'.op = "create_execution" THEN stepLog @@ (resp'.body.execution_id :> <<>>)
       ELSE IF resp'.op = "create_step" /\ resp'.code = 200
         THEN [stepLog EXCEPT ![resp'.req.id] = Append(@, resp'.body.step_id)]
       ELSE stepLog
  /\ evalLog' =
       IF resp'.op = "create_step" /\ resp'.code = 200
         THEN evalLog @@ (resp'.body.step_id :> <<>>)
       ELSE IF resp'.op = "add_evaluation" /\ resp'.code = 200
         THEN [evalLog EXCEPT ![resp'.req.id] = Append(@, resp'.req.body)]
       ELSE evalLog
  /\ written' =
       IF resp'.op = "create_execution"
         THEN [written EXCEPT !.metadata = (resp'.body.execution_id :> resp'.req.metadata) @@ @]
       ELSE IF resp'.op = "create_step" /\ resp'.code = 200
         THEN [written EXCEPT !.step = (resp'.body.step_id :> resp'.req.body) @@ @]
       ELSE IF /\ resp'.op = "update_step"
               /\ resp'.code = 200
               /\ resp'.req.body.output.some
               /\ resp'.req.body.output.dict # <<>>
         THEN [written EXCEPT !.output = (resp'.req.id :> resp'.req.body.output.dict) @@ @]
       ELSE written

\* ------------------------------------------------ the store under one caller

\* no exception in flight
NoExc == ""

\* the concurrent callers of the API
Callers == 1..NumCallers

\* a caller that waits on no request; an event loop between two handlers
NoRequest == [op |-> "none"]
NoTask == [op |-> "none"]

\* the program is inside of no helper, wrapper or runner
NoFrame == [fn |-> "none"]

\* no call made on the client yet, or its outcome already taken note of
NoResult == [call |-> "none", outcome |-> "none", error |-> NoExc, net |-> "none"]

Init ==
  /\ executions = <<>>
  /\ steps = <<>>
  /\ nextId = 1
  /\ now = 1
  /\ resp = NoResponse
  /\ stepLog = <<>>
  /\ evalLog = <<>>
  /\ written = [metadata |-> <<>>, step |-> <<>>, output |-> <<>>]
  /\ execution_id = None
  /\ current_step_id = None
  /\ scopes = <<>>
  /\ exc = NoExc
  /\ result = NoResult
  /\ pending = [c \in Callers |-> NoRequest]
  /\ loop = NoTask
  /\ calls = [c \in Callers |-> 0]
  /\ sent = [c \in Callers |-> <<>>]
  /\ frame = NoFrame
  /\ step_handlers = {}

NumExecs == Cardinality(DOMAIN executions)
NumSteps == Cardinality(DOMAIN steps)

\* the evaluations recorded so far, over all steps
RECURSIVE SumEvals(_)
SumEvals(S) ==
  IF S = {} THEN 0
  ELSE LET x == CHOOSE x \in S : TRUE IN Len(steps[x].evaluations) + SumEvals(S \ {x})
NumEvals == SumEvals(DOMAIN steps)

\* the ids a caller can name: every id issued so far, of either kind, and one
\* id that was never issued
ArgIds == DOMAIN executions \cup DOMAIN steps \cup {nextId}

\* the caller sends its next request once it has read the last response
Idle == resp.op = "none" /\ result.call = "none"

\* the caller reads the response
Receive ==
  /\ resp.op # "none"
  /\ result.call = "none"
  /\ resp' = NoResponse
  /\ UNCHANGED <<storeVars, now, logVars, clientVars, concVars, runVars>>

\* time passes on the server
Tick ==
  /\ Idle
  /\ now < MaxClock
  /\ now' = now + 1
  /\ UNCHANGED <<storeVars, resp, logVars, clientVars, concVars, runVars>>

CreateExecution ==
  /\ Idle
  /\ NumExecs < MaxExecs
  /\ \E md \in MetadataInputs : create_execution("run", md)
  /\ LogAfter
  /\ UNCHANGED <<now, clientVars, concVars, runVars>>

ListExecutions ==
  /\ Idle
  /\ \E limit \in {0, 1, DefaultLimit} : list_executions(limit)
  /\ UNCHANGED <<now, logVars, clientVars, concVars, runVars>>

GetExecution ==
  /\ Idle
  /\ \E eid \in ArgIds : get_execution(eid)
  /\ UNCHANGED <<now, logVars, clientVars, concVars, runVars>>

UpdateExecution ==
  /\ Idle
  /\ \E eid \in ArgIds, status \in StatusInputs \cup {NoStatus}, ended_at \in OptTimes :
        update_execution(eid, status, ended_at)
  /\ UNCHANGED <<now, logVars, clientVars, concVars, runVars>>

CreateStep ==
  /\ Idle
  /\ NumSteps < MaxSteps
  /\ \E eid \in ArgIds, req \in StepInputs : create_step(eid, req)
  /\ LogAfter
  /\ UNCHANGED <<now, clientVars, concVars, runVars>>

ListSteps ==
  /\ Idle
  /\ \E eid \in ArgIds : list_steps(eid)
  /\ UNCHANGED <<now, logVars, clientVars, concVars, runVars>>

GetStep ==
  /\ Idle
  /\ \E sid \in ArgIds : get_step(sid)
  /\ UNCHANGED <<now, logVars, clientVars, concVars, runVars>>

UpdateStep ==
  /\ Idle
  /\ \E sid \in ArgIds, out \in OutputInputs, ended_at \in OptTimes :
        update_step(sid, [output |-> out, ended_at |-> ended_at])
  /\ LogAfter
  /\ UNCHANGED <<now, clientVars, concVars, runVars>>

AddEvaluation ==
  /\ Idle
  /\ NumEvals < MaxEvals
  /\ \E sid \in ArgIds, ev \in EvalInputs : add_evaluation(sid, ev)
  /\ LogAfter
  /\ UNCHANGED <<now, clientVars, concVars, runVars>>

Next ==
  \/ Receive
  \/ Tick
  \/ CreateExecution
  \/ ListExecutions
  \/ GetExecution
  \/ UpdateExecution
  \/ CreateStep
  \/ ListSteps
  \/ GetStep
  \/ UpdateStep
  \/ AddEvaluation

\* the store called through its endpoints by one caller at a time
Spec == Init /\ [][Next]_vars

\* ------------------------------------------------------------ the client
\* sdk/xray.py. A call on the client is synchronous: it checks the session
\* state, sends one request, waits for the response and updates the session.

MaxSessions == 2
MaxDepth == 2

\* what the network does to one request: it is answered; it never reaches the
\* server (connection error); the server handles it and the answer is lost
\* (timeout). The last two raise requests.RequestException in the client.
NetInputs == {"ok", "lost_request", "lost_response"}

\* the description of an exception raised by the body of a with-block
BodyErrors == {"boom"}

Outcome(call, outcome, error, net) ==
  [call |-> call, outcome |-> outcome, error |-> error, net |-> net]

\* response.raise_for_status() passes and the response was received
Answered(net, r) == net = "ok" /\ r.code = 200

\* (mutation) start_execution refuses to run while an execution is current
start_execution_guarded(md, net) ==
  IF execution_id # None
    THEN /\ UNCHANGED <<storeVars, resp, execution_id, current_step_id>>
         /\ result' = Outcome("start_execution", "ValueError", "Execution already started", "none")
  ELSE IF net = "lost_request"
    THEN /\ UNCHANGED <<storeVars, resp, execution_id, current_step_id>>
         /\ result' = Outcome("start_execution", "XRayError", "Failed to start execution", net)
    ELSE /\ create_execution("run", md)
         /\ IF Answered(net, resp')
              THEN /\ execution_id' = resp'.body.execution_id
                   /\ result' = Outcome("start_execution", "ok", NoExc, net)
              ELSE /\ UNCHANGED execution_id
                   /\ result' = Outcome("start_execution", "XRayError", "Failed to start execution", net)
         /\ UNCHANGED current_step_id

\* XRay.start_execution
start_execution(md, net) ==
  IF net = "lost_request"
    THEN /\ UNCHANGED <<storeVars, resp, execution_id, current_step_id>>
         /\ result' = Outcome("start_execution", "XRayError", "Failed to start execution", net)
    ELSE /\ create_execution("run", md)
         /\ IF Answered(net, resp')
              THEN /\ execution_id' = resp'.body.execution_id
                   /\ result' = Outcome("start_execution", "ok", NoExc, net)
              ELSE /\ UNCHANGED execution_id
                   /\ result' = Outcome("start_execution", "XRayError", "Failed to start execution", net)
         /\ UNCHANGED current_step_id

\* (mutation) start_step refuses to run while a step is current
start_step_guarded(req, net) ==
  IF execution_id = None
    THEN /\ UNCHANGED <<storeVars, resp, execution_id, current_step_id>>
         /\ result' = Outcome("start_step", "ValueError", "Must call start_execution() first", "none")
  ELSE IF current_step_id # None
    THEN /\ UNCHANGED <<storeVars, resp, execution_id, current_step_id>>
         /\ result' = Outcome("start_step", "ValueError", "Must call end_step() first", "none")
  ELSE IF net = "lost_request"
    THEN /\ UNCHANGED <<storeVars, resp, execution_id, current_step_id>>
         /\ result' = Outcome("start_step", "XRayError", "Failed to start step", net)
    ELSE /\ create_step(execution_id, req)
         /\ IF Answered(net, resp')
              THEN /\ current_step_id' = resp'.body.step_id
                   /\ result' = Outcome("start_step", "ok", NoExc, net)
              ELSE /\ UNCHANGED current_step_id
                   /\ result' = Outcome("start_step", "XRayError", "Failed to start step", net)
         /\ UNCHANGED execution_id

\* XRay.start_step
start_step(req, net) ==
  IF execution_id = None
    THEN /\ UNCHANGED <<storeVars, resp, execution_id, current_step_id>>
         /\ result' = Outcome("start_step", "ValueError", "Must call start_execution() first", "none")
  ELSE IF net = "lost_request"
    THEN /\ UNCHANGED <<storeVars, resp, execution_id, current_step_id>>
         /\ result' = Outcome("start_step", "XRayError", "Failed to start step", net)
    ELSE /\ create_step(execution_id, req)
         /\ IF Answered(net, resp')
              THEN /\ current_step_id' = resp'.body.step_id
                   /\ result' = Outcome("start_step", "ok", NoExc, net)
              ELSE /\ UNCHANGED current_step_id
                   /\ result' = Outcome("start_step", "XRayError", "Failed to start step", net)
         /\ UNCHANGED execution_id

\* XRay.record_evaluation
record_evaluation(ev, net) ==
  IF current_step_id = None
    THEN /\ UNCHANGED <<storeVars, resp, execution_id, current_step_id>>
         /\ result' = Outcome("record_evaluation", "ValueError", "Must call start_step() first", "none")
  ELSE IF net = "lost_request"
    THEN /\ UNCHANGED <<storeVars, resp, execution_id, current_step_id>>
         /\ result' = Outcome("record_evaluation", "XRayError", "Failed to record evaluation", net)
    ELSE /\ add_evaluation(current_step_id, ev)
         /\ result' = IF Answered(net, resp')
                        THEN Outcome("record_evaluation", "ok", NoExc, net)
                        ELSE Outcome("record_evaluation", "XRayError", "Failed to record evaluation", net)
         /\ UNCHANGED <<execution_id, current_step_id>>

\* (mutation) end_step sends its request without looking at current_step_id
end_step_unguarded(output, net) ==
  IF net = "lost_request"
    THEN /\ UNCHANGED <<storeVars, resp, execution_id, current_step_id>>
         /\ result' = Outcome("end_step", "XRayError", "Failed to end step", net)
    ELSE /\ update_step(current_step_id,
                        [output |-> [some |-> TRUE, dict |-> output.dict], ended_at |-> None])
         /\ IF Answered(net, resp')
              THEN /\ current_step_id' = None
                   /\ result' = Outcome("end_step", "ok", NoExc, net)
              ELSE /\ UNCHANGED current_step_id
                   /\ result' = Outcome("end_step", "XRayError", "Failed to end step", net)
         /\ UNCHANGED execution_id

\* (mutation) end_step gives the step up whatever becomes of the request: the
\* current step is cleared in a finally clause
end_step_clearing(output, net) ==
  IF current_step_id = None
    THEN /\ UNCHANGED <<storeVars, resp, execution_id, current_step_id>>
         /\ result' = Outcome("end_step", "ValueError", "No active step to end", "none")
  ELSE IF net = "lost_request"
    THEN /\ UNCHANGED <<storeVars, resp, execution_id>>
         /\ current_step_id' = None
         /\ result' = Outcome("end_step", "XRayError", "Failed to end step", net)
    ELSE /\ update_step(current_step_id,
                        [output |-> [some |-> TRUE, dict |-> output.dict], ended_at |-> None])
         /\ current_step_id' = None
         /\ result' = IF Answered(net, resp')
                        THEN Outcome("end_step", "ok", NoExc, net)
                        ELSE Outcome("end_step", "XRayError", "Failed to end step", net)
         /\ UNCHANGED execution_id

\* XRay.end_step; output is the dict given, None included
end_step(output, net) ==
  IF current_step_id = None
    THEN /\ UNCHANGED <<storeVars, resp, execution_id, current_step_id>>
         /\ result' = Outcome("end_step", "ValueError", "No active step to end", "none")
  ELSE IF net = "lost_request"
    THEN /\ UNCHANGED <<storeVars, resp, execution_id, current_step_id>>
         /\ result' = Outcome("end_step", "XRayError", "Failed to end step", net)
    ELSE /\ update_step(current_step_id,
                        [output |-> [some |-> TRUE, dict |-> output.dict], ended_at |-> None])
         /\ IF Answered(net, resp')
              THEN /\ current_step_id' = None
                   /\ result' = Outcome("end_step", "ok", NoExc, net)
              ELSE /\ UNCHANGED current_step_id
                   /\ result' = Outcome("end_step", "XRayError", "Failed to end step", net)
         /\ UNCHANGED execution_id

\* (mutation) end_execution closes the step that is still open: it is given
\* the ended_at of the execution
end_execution_closing(status, net) ==
  IF execution_id = None
    THEN /\ UNCHANGED <<storeVars, resp, execution_id, current_step_id>>
         /\ result' = Outcome("end_execution", "ValueError", "No active execution to end", "none")
  ELSE IF net = "lost_request"
    THEN /\ UNCHANGED <<storeVars, resp, execution_id, current_step_id>>
         /\ result' = Outcome("end_execution", "XRayError", "Failed to end execution", net)
    ELSE /\ executions' = storage_update_execution(executions, execution_id,
                             ("status" :> status) @@ ("ended_at" :> now))
         /\ steps' = IF current_step_id \in DOMAIN steps
                       THEN storage_update_step(steps, current_step_id, ("ended_at" :> now))
                       ELSE steps
         /\ UNCHANGED nextId
         /\ resp' = Response("update_execution",
                             [id |-> execution_id, status |-> status, ended_at |-> now], 200,
                             SerializeExecution(executions', steps', execution_id))
         /\ IF Answered(net, resp')
              THEN /\ execution_id' = None
                   /\ result' = Outcome("end_execution", "ok", NoExc, net)
              ELSE /\ UNCHANGED execution_id
                   /\ result' = Outcome("end_execution", "XRayError", "Failed to end execution", net)
         /\ UNCHANGED current_step_id

\* XRay.end_execution; the client stamps ended_at with its own clock reading
end_execution(status, net) ==
  IF execution_id = None
    THEN /\ UNCHANGED <<storeVars, resp, execution_id, current_step_id>>
         /\ result' = Outcome("end_execution", "ValueError", "No active execution to end", "none")
  ELSE IF net = "lost_request"
    THEN /\ UNCHANGED <<storeVars, resp, execution_id, current_step_id>>
         /\ result' = Outcome("end_execution", "XRayError", "Failed to end execution", net)
    ELSE /\ update_execution(execution_id, status, now)
         /\ IF Answered(net, resp')
              THEN /\ execution_id' = None
                   /\ result' = Outcome("end_execution", "ok", NoExc, net)
              ELSE /\ UNCHANGED execution_id
                   /\ result' = Outcome("end_execution", "XRayError", "Failed to end execution", net)
         /\ UNCHANGED current_step_id

\* StepContext(xray, ...): the object of one with-block. `opened` is not a field
\* of the object: it remembers, for the claims, the step __enter__ started.
StepContext(opened) == [opened |-> opened, output |-> NoDict]

\* StepContext.__enter__: the block is entered only if start_step returns
StepContext_enter(req, net) ==
  /\ start_step(req, net)
  /\ scopes' = IF result'.outcome = "ok"
                 THEN Append(scopes, StepContext(current_step_id'))
                 ELSE scopes

\* StepContext.set_output
set_output(output) ==
  scopes' = [scopes EXCEPT ![Len(scopes)].output = output]

\* output = self._output or {}; output["error"] = str(exc_val) if an exception
\* is in flight
ExitOutput(ctx, e) ==
  LET output == IF ctx.output.some THEN ctx.output.dict ELSE <<>>
  IN [some |-> TRUE, dict |-> IF e # NoExc THEN ("error" :> e) @@ output ELSE output]

\* StepContext.__exit__: ends the client's current step and returns False, so
\* the exception in flight goes on; an exception of end_step takes its place
StepContext_exit(net) ==
  /\ end_step(ExitOutput(scopes[Len(scopes)], exc), net)
  /\ scopes' = SubSeq(scopes, 1, Len(scopes) - 1)

\* The exception leaving a call or a with-block: inside an enclosing with-block
\* it is in flight in that block's body; outside every block it has reached
\* the program, which goes on.
Propagate(e, enclosing) == IF enclosing # <<>> THEN e ELSE NoExc

\* the program has taken note of how its last call ended
Continue ==
  /\ result.call # "none"
  /\ result' = NoResult
  /\ resp' = NoResponse
  /\ UNCHANGED <<storeVars, now, logVars, execution_id, current_step_id, scopes, exc, concVars, runVars>>

\* the program can make its next call: no exception is in flight
Ready == Idle /\ exc = NoExc

StartExecution(nets) ==
  /\ Ready
  /\ NumExecs < MaxSessions
  /\ \E md \in MetadataInputs, net \in nets : start_execution(md, net)
  /\ exc' = Propagate(result'.error, scopes)
  /\ LogAfter
  /\ UNCHANGED <<now, scopes, concVars, runVars>>

StartStep(nets) ==
  /\ Ready
  /\ NumSteps < MaxSteps
  /\ \E req \in StepInputs, net \in nets : start_step(req, net)
  /\ exc' = Propagate(result'.error, scopes)
  /\ LogAfter
  /\ UNCHANGED <<now, scopes, concVars, runVars>>

RecordEvaluation(nets) ==
  /\ Ready
  /\ NumEvals < MaxEvals
  /\ \E ev \in EvalInputs, net \in nets : record_evaluation(ev, net)
  /\ exc' = Propagate(result'.error, scopes)
  /\ LogAfter
  /\ UNCHANGED <<now, scopes, concVars, runVars>>

EndStep(nets) ==
  /\ Ready
  /\ \E output \in OutputInputs, net \in nets : end_step(output, net)
  /\ exc' = Propagate(result'.error, scopes)
  /\ LogAfter
  /\ UNCHANGED <<now, scopes, concVars, runVars>>

EndExecution(nets) ==
  /\ Ready
  /\ \E status \in StatusInputs, net \in nets : end_execution(status, net)
  /\ exc' = Propagate(result'.error, scopes)
  /\ LogAfter
  /\ UNCHANGED <<now, scopes, concVars, runVars>>

\* with step(xray, ...) as ctx:
Enter(nets) ==
  /\ Ready
  /\ Len(scopes) < MaxDepth
  /\ NumSteps < MaxSteps
  /\ \E req \in StepInputs, net \in nets : StepContext_enter(req, net)
  /\ exc' = Propagate(result'.error, scopes)
  /\ LogAfter
  /\ UNCHANGED <<now, concVars, runVars>>

\* ctx.set_output(...) in the body of the innermost block
SetOutput ==
  /\ Ready
  /\ scopes # <<>>
  /\ \E output \in OutputInputs : output.some /\ set_output(output)
  /\ UNCHANGED <<storeVars, now, resp, logVars, execution_id, current_step_id, exc, result, concVars, runVars>>

\* the body of the innermost block raises
Raise ==
  /\ Ready
  /\ scopes # <<>>
  /\ \E e \in BodyErrors : exc' = e
  /\ UNCHANGED <<storeVars, now, resp, logVars, execution_id, current_step_id, scopes, result, concVars, runVars>>

\* the body of the innermost block handles the exception in flight
Catch ==
  /\ Idle
  /\ scopes # <<>>
  /\ exc # NoExc
  /\ exc' = NoExc
  /\ UNCHANGED <<storeVars, now, resp, logVars, execution_id, current_step_id, scopes, result, concVars, runVars>>

\* the innermost block is left, by the end of its body or by the exception in
\* flight
Exit(nets) ==
  /\ Idle
  /\ scopes # <<>>
  /\ \E net \in nets : StepContext_exit(net)
  /\ exc' = Propagate(IF result'.outcome = "ok" THEN exc ELSE result'.error, scopes')
  /\ LogAfter
  /\ UNCHANGED <<now, concVars, runVars>>

ClientNext ==
  \/ Continue
  \/ StartExecution(NetInputs)
  \/ StartStep(NetInputs)
  \/ RecordEvaluation(NetInputs)
  \/ EndStep(NetInputs)
  \/ EndExecution(NetInputs)

\* one program calling one XRay client against the store
SpecClient == Init /\ [][ClientNext]_vars

\* every request is answered
Reliable == {"ok"}

ScopedNext ==
  \/ Continue
  \/ StartExecution(Reliable)
  \/ EndExecution(Reliable)
  \/ Enter(Reliable)
  \/ SetOutput
  \/ RecordEvaluation(Reliable)
  \/ Raise
  \/ Catch
  \/ Exit(Reliable)

\* one program using one XRay client through with-blocks, possibly nested,
\* over a network that loses nothing
SpecScoped == Init /\ [][ScopedNext]_vars

\* ------------------------------------------------------------ the listing
\* A store that holds several executions, created at different times or at the
\* same time, and is listed with every limit from 0 to more than it holds.

MaxListed == 3

LimitInputs == 0..(MaxListed + 1) \cup {DefaultLimit}

CreateListedExecution ==
  /\ Idle
  /\ NumExecs < MaxListed
  /\ \E md \in MetadataInputs : create_execution("run", md)
  /\ LogAfter
  /\ UNCHANGED <<now, clientVars, concVars, runVars>>

ListExecutionsUpTo ==
  /\ Idle
  /\ \E limit \in LimitInputs : list_executions(limit)
  /\ UNCHANGED <<now, logVars, clientVars, concVars, runVars>>

ListingNext ==
  \/ Receive
  \/ Tick
  \/ CreateListedExecution
  \/ GetExecution
  \/ ListExecutionsUpTo

SpecListing == Init /\ [][ListingNext]_vars

\* ------------------------------------------------------------ the session

SessionNext ==
  \/ Continue
  \/ StartExecution(Reliable)
  \/ StartStep(Reliable)
  \/ RecordEvaluation(Reliable)
  \/ EndStep(Reliable)
  \/ EndExecution(Reliable)
  \/ GetExecution
  \/ Receive

\* one program that traces its run through direct calls on one XRay client and
\* reads its executions back from the store, over a network that loses nothing
SpecSession == Init /\ [][SessionNext]_vars

\* ------------------------------------------------- the store under load
\* Several callers send requests at the same time. The server runs every
\* handler as a coroutine on one event loop; a handler has no await, so the
\* loop runs it from its first statement to its return before it starts the
\* next one. CreateStep is followed statement by statement: between the two
\* writes of InMemoryStorage.add_step the step is in the step index and not yet
\* in the step list of its execution.

ReadOps == {"get_execution", "list_steps", "get_step"}

\* the name a caller signs its evaluations with
CallerName(c) == ToString(c)

\* the k-th evaluation of caller c: every caller judges the same entity
CallerEvaluation(c, k) ==
  [entity_id |-> "e1", value |-> k, passed |-> TRUE, reason |-> CallerName(c)]

\* the callers that wait for the answer to a request of this kind
Waiting(op) == {d \in Callers : pending[d].op = op}

\* the requests caller c can send now
Requests(c) ==
  (IF NumExecs + Cardinality(Waiting("create_execution")) < MaxExecs
     THEN {[op |-> "create_execution"]} ELSE {})
  \cup {[op |-> "create_step", id |-> e] :
          e \in {d \in DOMAIN executions :
                   NumSteps + Cardinality(Waiting("create_step")) < MaxSteps}}
  \cup {[op |-> "add_evaluation", id |-> t, body |-> CallerEvaluation(c, calls[c] + 1)] :
          t \in {d \in DOMAIN steps : calls[c] < MaxCalls}}
  \cup {[op |-> "get_execution", id |-> e] : e \in DOMAIN executions}
  \cup {[op |-> "list_steps", id |-> e] : e \in DOMAIN executions}
  \cup {[op |-> "get_step", id |-> t] : t \in DOMAIN steps}

\* a caller sends a request and waits for the answer
Send(c) ==
  /\ pending[c] = NoRequest
  /\ \E r \in Requests(c) :
       /\ pending' = [pending EXCEPT ![c] = r]
       /\ calls' = [calls EXCEPT ![c] = IF r.op = "add_evaluation" THEN @ + 1 ELSE @]
  /\ UNCHANGED <<storeVars, now, resp, logVars, clientVars, runVars, loop, sent>>

\* the event loop is free to start the handler of a waiting request
LoopFree == loop = NoTask /\ resp.op = "none"

\* create_execution, run for caller c
ServeCreateExecution(c) ==
  /\ LoopFree
  /\ pending[c].op = "create_execution"
  /\ \E md \in MetadataInputs : create_execution("run", md)
  /\ pending' = [pending EXCEPT ![c] = NoRequest]
  /\ LogAfter
  /\ UNCHANGED <<now, clientVars, runVars, loop, calls, sent>>

\* create_step up to and including self.steps[step.step_id] = step
create_step_begin(c, eid, req) ==
  IF eid \notin DOMAIN executions
    THEN /\ UNCHANGED <<storeVars, loop>>
         /\ resp' = Response("create_step", [id |-> eid, body |-> req], 404, HTTPException("Execution not found"))
         /\ pending' = [pending EXCEPT ![c] = NoRequest]
    ELSE LET s == Step(nextId, eid, req, now) IN
         /\ steps' = storage_add_step_index(steps, s)
         /\ nextId' = nextId + 1
         /\ loop' = [op |-> "create_step", caller |-> c, eid |-> eid, req |-> req, step |-> s]
         /\ UNCHANGED <<executions, resp, pending>>

\* create_step from execution.steps.append(step) to its return
create_step_finish ==
  /\ executions' = storage_add_step_append(executions, loop.eid, loop.step)
  /\ resp' = Response("create_step", [id |-> loop.eid, body |-> loop.req], 200,
                      steps[loop.step.step_id])
  /\ pending' = [pending EXCEPT ![loop.caller] = NoRequest]
  /\ loop' = NoTask
  /\ UNCHANGED <<steps, nextId>>

ServeCreateStepBegin(c) ==
  /\ LoopFree
  /\ pending[c].op = "create_step"
  /\ \E req \in StepInputs : create_step_begin(c, pending[c].id, req)
  /\ UNCHANGED <<now, logVars, clientVars, runVars, calls, sent>>

ServeCreateStepFinish ==
  /\ loop.op = "create_step"
  /\ create_step_finish
  /\ LogAfter
  /\ UNCHANGED <<now, clientVars, runVars, calls, sent>>

\* the other callers whose AddEvaluation against the same step is in flight
\* while the one of caller c is served
Overlapping(c) ==
  {d \in Callers \ {c} : pending[d].op = "add_evaluation" /\ pending[d].id = pending[c].id}

\* (mutation) last write wins: a handler served while a call of another caller
\* against the step is in flight writes back the list it built from the entries
\* of its own caller
ServeAddEvaluationLastWriteWins(c) ==
  /\ LoopFree
  /\ pending[c].op = "add_evaluation"
  /\ IF pending[c].id \in DOMAIN steps /\ Overlapping(c) # {}
       THEN /\ steps' = [steps EXCEPT ![pending[c].id].evaluations =
                           Append(SelectSeq(@, LAMBDA ev : ev.reason = CallerName(c)), pending[c].body)]
            /\ UNCHANGED <<executions, nextId>>
            /\ resp' = Response("add_evaluation", [id |-> pending[c].id, body |-> pending[c].body], 200,
                                steps'[pending[c].id])
       ELSE add_evaluation(pending[c].id, pending[c].body)
  /\ sent' = IF resp'.code = 200
               THEN [sent EXCEPT ![c] = Append(@, [id |-> pending[c].id, body |-> pending[c].body,
                                                   overlap |-> Overlapping(c)])]
               ELSE sent
  /\ pending' = [pending EXCEPT ![c] = NoRequest]
  /\ LogAfter
  /\ UNCHANGED <<now, clientVars, runVars, loop, calls>>

\* add_evaluation, run for caller c
ServeAddEvaluation(c) ==
  /\ LoopFree
  /\ pending[c].op = "add_evaluation"
  /\ add_evaluation(pending[c].id, pending[c].body)
  /\ sent' = IF resp'.code = 200
               THEN [sent EXCEPT ![c] = Append(@, [id |-> pending[c].id, body |-> pending[c].body,
                                                   overlap |-> Overlapping(c)])]
               ELSE sent
  /\ pending' = [pending EXCEPT ![c] = NoRequest]
  /\ LogAfter
  /\ UNCHANGED <<now, clientVars, runVars, loop, calls>>

\* (mutation) the read handlers run while another handler is in progress, as
\* plain functions on a thread pool would
ServeReadThreaded(c) ==
  /\ resp.op = "none"
  /\ pending[c].op \in ReadOps
  /\ CASE pending[c].op = "get_execution" -> get_execution(pending[c].id)
       [] pending[c].op = "list_steps" -> list_steps(pending[c].id)
       [] pending[c].op = "get_step" -> get_step(pending[c].id)
  /\ pending' = [pending EXCEPT ![c] = NoRequest]
  /\ UNCHANGED <<now, logVars, clientVars, runVars, loop, calls, sent>>

\* get_execution, list_steps or get_step, run for caller c
ServeRead(c) ==
  /\ LoopFree
  /\ pending[c].op \in ReadOps
  /\ CASE pending[c].op = "get_execution" -> get_execution(pending[c].id)
       [] pending[c].op = "list_steps" -> list_steps(pending[c].id)
       [] pending[c].op = "get_step" -> get_step(pending[c].id)
  /\ pending' = [pending EXCEPT ![c] = NoRequest]
  /\ UNCHANGED <<now, logVars, clientVars, runVars, loop, calls, sent>>

\* the response leaves the server
Respond ==
  /\ resp.op # "none"
  /\ resp' = NoResponse
  /\ UNCHANGED <<storeVars, now, logVars, clientVars, concVars, runVars>>

ConcNext ==
  \/ \E c \in Callers : Send(c)
  \/ \E c \in Callers : ServeCreateExecution(c)
  \/ \E c \in Callers : ServeCreateStepBegin(c)
  \/ ServeCreateStepFinish
  \/ \E c \in Callers : ServeAddEvaluation(c)
  \/ \E c \in Callers : ServeRead(c)
  \/ Respond

\* the store called by several callers at once
SpecConc == Init /\ [][ConcNext]_vars

\* ------------------------------------------------------- a new execution
\* Executions are created in a store that holds other executions, running or
\* not, and their steps; the caller of CreateExecution takes the id out of the
\* response and reads that execution back before it does anything else.

MaxCreated == 2

CreateAnotherExecution ==
  /\ Idle
  /\ NumExecs < MaxCreated
  /\ \E md \in MetadataInputs : create_execution("run", md)
  /\ LogAfter
  /\ UNCHANGED <<now, clientVars, concVars, runVars>>

\* GET /api/executions/{execution_id} with the id of the response just received
GetCreatedExecution ==
  /\ resp.op = "create_execution"
  /\ result.call = "none"
  /\ get_execution(resp.body.execution_id)
  /\ UNCHANGED <<now, logVars, clientVars, concVars, runVars>>

CreatedNext ==
  \/ Receive
  \/ CreateAnotherExecution
  \/ GetCreatedExecution
  \/ UpdateExecution
  \/ CreateStep
  \/ AddEvaluation

SpecCreated == Init /\ [][CreatedNext]_vars

\* ------------------------------------------------- the status transitions
\* One execution is moved from every status to every status: the three the
\* Execution model documents and one it does not.

TransitionInputs == {"running", "completed", "failed", "cancelled"}

UpdateExecutionStatus ==
  /\ Idle
  /\ \E eid \in ArgIds, status \in TransitionInputs \cup {NoStatus}, ended_at \in OptTimes :
        update_execution(eid, status, ended_at)
  /\ UNCHANGED <<now, logVars, clientVars, concVars, runVars>>

TransitionNext ==
  \/ Receive
  \/ Tick
  \/ CreateExecution
  \/ UpdateExecutionStatus
  \/ GetExecution

SpecTransitions == Init /\ [][TransitionNext]_vars

\* ----------------------------------------------------- the storage object
\* InMemoryStorage called method by method, as a program that imports
\* backend/storage.py calls it, without the checks the endpoints make first:
\* with ids that are stored, ids of the other kind and ids never issued, and
\* with any keyword arguments, attributes of the object or not.

\* storage.create_execution(Execution(...))
StorageCreateExecution ==
  /\ Idle
  /\ NumExecs < MaxExecs
  /\ \E md \in MetadataInputs :
       LET e == Execution(nextId, "run", ExecutionMetadata(md), now) IN
       /\ executions' = storage_create_execution(executions, e)
       /\ resp' = Response("storage_create_execution", [execution |-> e], None, e)
  /\ nextId' = nextId + 1
  /\ UNCHANGED <<steps, now, logVars, clientVars, concVars, runVars>>

\* storage.update_execution(execution_id, **kwargs); the answer is the
\* execution, or None (an empty body here) when none is stored under the id
StorageUpdateExecution ==
  /\ Idle
  /\ \E eid \in ArgIds, withStatus \in BOOLEAN, withEnded \in BOOLEAN :
       LET kwargs == Kw(withStatus, "status", "completed") @@ Kw(withEnded, "ended_at", now) IN
       /\ executions' = IF eid \in DOMAIN executions
                          THEN storage_update_execution(executions, eid, kwargs)
                          ELSE executions
       /\ resp' = Response("storage_update_execution", [id |-> eid, kwargs |-> kwargs], None,
                           IF eid \in DOMAIN executions THEN executions'[eid] ELSE <<>>)
  /\ UNCHANGED <<steps, nextId, now, logVars, clientVars, concVars, runVars>>

\* storage.add_step(execution_id, Step(...)); an execution id that was never
\* issued is one the caller made up, and is not issued later either
StorageAddStep ==
  /\ Idle
  /\ NumSteps < MaxSteps
  /\ \E eid \in ArgIds, req \in StepInputs :
       LET sid == IF eid = nextId THEN nextId + 1 ELSE nextId
           s == Step(sid, eid, req, now) IN
       /\ steps' = storage_add_step_index(steps, s)
       /\ executions' = storage_add_step_append(executions, eid, s)
       /\ nextId' = sid + 1
       /\ resp' = Response("storage_add_step", [id |-> eid, step |-> s], None, s)
  /\ UNCHANGED <<now, logVars, clientVars, concVars, runVars>>

\* storage.update_step(step_id, **kwargs); "duration" is no attribute of a Step
StorageUpdateStep ==
  /\ Idle
  /\ \E sid \in ArgIds, withOutput \in BOOLEAN, withEnded \in BOOLEAN, withOther \in BOOLEAN :
       LET kwargs == Kw(withOutput, "output", StepOutput([passed |-> 2]))
                       @@ Kw(withEnded, "ended_at", now)
                       @@ Kw(withOther, "duration", 1) IN
       /\ steps' = IF sid \in DOMAIN steps
                     THEN storage_update_step(steps, sid, kwargs)
                     ELSE steps
       /\ resp' = Response("storage_update_step", [id |-> sid, kwargs |-> kwargs], None,
                           IF sid \in DOMAIN steps THEN steps'[sid] ELSE <<>>)
  /\ UNCHANGED <<executions, nextId, now, logVars, clientVars, concVars, runVars>>

StorageNext ==
  \/ Receive
  \/ Tick
  \/ StorageCreateExecution
  \/ StorageUpdateExecution
  \/ StorageAddStep
  \/ StorageUpdateStep

SpecStorage == Init /\ [][StorageNext]_vars

\* ------------------------------------------------------ the failing store
\* The storage is an object of the server process (storage = InMemoryStorage()
\* at import): a restart of the server empties it, while a client keeps the
\* ids it was given. From then on the store answers the client's requests
\* with 404. Identifiers issued after the restart are fresh; MaxIssued is the
\* last identifier issued.

MaxIssued == 3

\* the server process is started again
Restart ==
  /\ Ready
  /\ DOMAIN executions # {}
  /\ executions' = <<>>
  /\ steps' = <<>>
  /\ UNCHANGED <<nextId, now, resp, logVars, clientVars, concVars, runVars>>

FailingNext ==
  \/ Continue
  \/ nextId <= MaxIssued /\ StartExecution(NetInputs)
  \/ nextId <= MaxIssued /\ StartStep(NetInputs)
  \/ RecordEvaluation(NetInputs)
  \/ EndStep(NetInputs)
  \/ EndExecution(NetInputs)
  \/ Restart

\* one program calling one XRay client over a network that loses requests and
\* responses, against a store that can lose what it held
SpecFailing == Init /\ [][FailingNext]_vars

\* ------------------------------------------------------------ the helpers
\* sdk/integration_helpers.py. A helper opens one with-block of StepContext,
\* runs the caller's callback on the items and records evaluations, sets a
\* summary output and leaves the block. The callbacks are the caller's code:
\* what they return, and whether they raise, is an input of the call.

MaxItems == 2

\* the steps the helpers, wrappers and runners may open in one run
MaxOpened == 1

\* the evaluations extracted from one result
MaxExtracted == 1

\* the step configurations of one pipeline
MaxConfigs == 2

\* an item is a dictionary with an "id"; rank_step works on copies that carry
\* the score under "_xray_score"
ItemIds == {"a", "b"}
Item(id, score) == [id |-> id, score |-> score]
Items == { Item(id, None) : id \in ItemIds }
ScoreInputs == {1, 2}

RECURSIVE SeqsUpTo(_, _)
SeqsUpTo(S, n) ==
  IF n = 0 THEN { <<>> }
  ELSE LET shorter == SeqsUpTo(S, n - 1)
       IN shorter \cup { Append(s, x) : s \in { t \in shorter : Len(t) = n - 1 }, x \in S }

SeqsOfLen(S, n) == { s \in SeqsUpTo(S, n) : Len(s) = n }

ItemLists == SeqsUpTo(Items, MaxItems)

\* the exception a callback raises
CallbackErrors == {"callback failed"}

\* the calls a helper, wrapper or runner has made on the XRay client
NoCalls == [start_step |-> 0, record_evaluation |-> 0, end_step |-> 0]

\* what select_fn is for one call: not given, or given and returning a value
\* (<<>>: None or another falsy value), or given and raising
NoSelectFn == [given |-> FALSE, raises |-> FALSE, ret |-> <<>>]
SelectFns ==
  {NoSelectFn} \cup
  { [given |-> TRUE, raises |-> FALSE, ret |-> r] : r \in SeqsUpTo(Items, 1) } \cup
  { [given |-> TRUE, raises |-> TRUE, ret |-> <<>>] }

\* What the wrapped function, the handler or the body of a with-block does in
\* one call: it raises, or it returns a result from which these evaluations
\* are extracted.
NoBody == [raises |-> FALSE, evaluations |-> <<>>]
BodyInputs ==
  { [raises |-> FALSE, evaluations |-> evals] : evals \in SeqsUpTo(EvalInputs, MaxExtracted) }
  \cup { [raises |-> TRUE, evaluations |-> <<>>] }

\* The call in progress or just ended. fn: the function called; pc: where it
\* is ("next": between two steps of a pipeline, "body": about to run the
\* wrapped function, the handler or the body of the block, "loop": in the
\* loop of its with-block, "output": past set_output, "returned", "raised");
\* args: the items it was given; items: the items, or the extracted
\* evaluations, its loop goes through; i: the iterations done; body: what the
\* wrapped function, the handler or the body of the block does; configs: the
\* step configurations of the runner; k: the configurations done; outputs:
\* their outputs; opens: the steps opened, in order; select_fn: what select_fn
\* is for the call; verdicts, scores, images: what
\* the callback returns for each position; raises: the position at which the
\* callback raises (0: nowhere); kept: the list built so far; ret: the value
\* returned; kind, error: the type and the text of the exception raised in
\* the call; opened: the step of the with-block; known: the steps of the store
\* when the call was made; n: the calls made on the client.
Frame(fn, args) ==
  [fn |-> fn, pc |-> "loop", args |-> args, items |-> args, i |-> 0,
   verdicts |-> <<>>, scores |-> <<>>, images |-> <<>>, raises |-> 0,
   kept |-> <<>>, ret |-> <<>>, kind |-> "ok", error |-> NoExc, opened |-> None,
   body |-> NoBody, select_fn |-> NoSelectFn, configs |-> <<>>, k |-> 0, outputs |-> <<>>,
   opens |-> <<>>,
   known |-> DOMAIN steps, n |-> NoCalls]

\* the program is inside of a helper, wrapper or runner
Running == frame.fn # "none" /\ frame.pc \in {"next", "body", "loop", "output"}

\* entity_id = item.get(entity_id_key, str(item))
EntityId(item) == item.id

Eval(entity_id, value, passed, reason) ==
  [entity_id |-> entity_id, value |-> value, passed |-> passed, reason |-> reason]

\* the request of start_step(name, step_type, input_data, rules)
StepRequest(name, type) == [name |-> name, type |-> type, input |-> 1, rules |-> <<>>]

\* Python's sorted(scored_items, key=_xray_score, reverse=reverse): stable in
\* both directions
SortsBefore(x, y, reverse) == IF reverse THEN x.score > y.score ELSE x.score < y.score

InsertSorted(s, x, reverse) ==
  LET after == { j \in 1..Len(s) : SortsBefore(x, s[j], reverse) }
      at == IF after = {} THEN Len(s) + 1 ELSE CHOOSE j \in after : \A k \in after : j <= k
  IN SubSeq(s, 1, at - 1) \o <<x>> \o SubSeq(s, at, Len(s))

RECURSIVE sorted(_, _)
sorted(s, reverse) ==
  IF s = <<>> THEN <<>>
  ELSE InsertSorted(sorted(SubSeq(s, 1, Len(s) - 1), reverse), s[Len(s)], reverse)

\* the "_xray_score" field is removed again before the items are returned
Unscored(s) == [j \in 1..Len(s) |-> Item(s[j].id, None)]

\* ranked[:3] as ids
Top3Ids(s) == [j \in 1..(IF Len(s) < 3 THEN Len(s) ELSE 3) |-> EntityId(s[j])]

\* with step(xray, name, step_type, ...) as step_ctx: entered from the call f;
\* an exception of start_step leaves the call
Open(f, req, net) ==
  /\ StepContext_enter(req, net)
  /\ frame' = IF result'.outcome = "ok"
                THEN [f EXCEPT !.opened = current_step_id',
                               !.opens = Append(@, current_step_id'),
                               !.n.start_step = @ + 1]
                ELSE [f EXCEPT !.pc = "raised", !.kind = result'.outcome,
                               !.error = result'.error, !.n.start_step = @ + 1]
  /\ exc' = Propagate(result'.error, scopes)
  /\ LogAfter

\* the call f ends with an exception raised before its with-block
RaiseBefore(f, kind, e) ==
  /\ frame' = [f EXCEPT !.pc = "raised", !.kind = kind, !.error = e]
  /\ exc' = Propagate(e, scopes)
  /\ UNCHANGED <<storeVars, resp, logVars, execution_id, current_step_id, scopes, result>>

\* the callback raises in the body of the with-block
RaiseInside(e) ==
  /\ frame' = [frame EXCEPT !.kind = "Exception"]
  /\ exc' = e
  /\ UNCHANGED <<storeVars, resp, logVars, execution_id, current_step_id, scopes, result>>

\* step_ctx.log_evaluation(...) in the loop of the call: the iteration is done
\* with `kept` as the list built, unless record_evaluation raises
LogEvaluation(ev, kept, net) ==
  /\ record_evaluation(ev, net)
  /\ frame' = IF result'.outcome = "ok"
                THEN [frame EXCEPT !.i = @ + 1, !.kept = kept, !.n.record_evaluation = @ + 1]
                ELSE [frame EXCEPT !.kind = result'.outcome, !.n.record_evaluation = @ + 1]
  /\ exc' = result'.error
  /\ LogAfter

\* filter_step(xray, name, items, filter_fn, ...)
filter_step(items, verdicts, raises, net) ==
  Open([Frame("filter_step", items) EXCEPT !.verdicts = verdicts, !.raises = raises],
       StepRequest("filter", "filter"), net)

\* (mutation) filter_step records the items that pass only
filter_step_item_passing(net) ==
  LET j == frame.i + 1
      item == frame.items[j]
      passed == frame.verdicts[j]
  IN IF frame.raises = j
       THEN \E e \in CallbackErrors : RaiseInside(e)
     ELSE IF passed
       THEN /\ LogEvaluation(Eval(EntityId(item), item, passed, "Filter passed"),
                             Append(frame.kept, item), net)
            /\ UNCHANGED scopes
       ELSE /\ frame' = [frame EXCEPT !.i = @ + 1]
            /\ UNCHANGED <<storeVars, resp, logVars, execution_id, current_step_id,
                           scopes, exc, result>>

\* one iteration of filter_step's loop: filter_fn(item), step_ctx.evaluate,
\* filtered.append(item) if passed
filter_step_item(net) ==
  LET j == frame.i + 1
      item == frame.items[j]
      passed == frame.verdicts[j]
  IN IF frame.raises = j
       THEN \E e \in CallbackErrors : RaiseInside(e)
       ELSE /\ LogEvaluation(Eval(EntityId(item), item, passed,
                                  IF passed THEN "Filter passed" ELSE "Filter failed"),
                             IF passed THEN Append(frame.kept, item) ELSE frame.kept, net)
            /\ UNCHANGED scopes

\* (mutation) the summary counts the failed items wrongly: all of them when
\* none passed, all but one otherwise
filter_step_output_miscounting ==
  [total_evaluated |-> Len(frame.args),
   passed |-> Len(frame.kept),
   failed |-> IF frame.kept = <<>> THEN Len(frame.args) ELSE Len(frame.args) - 1]

filter_step_output ==
  [total_evaluated |-> Len(frame.args),
   passed |-> Len(frame.kept),
   failed |-> Len(frame.args) - Len(frame.kept)]

\* rank_step(xray, name, items, rank_fn, reverse, ...): the items are scored
\* and sorted before the with-block
rank_step(items, scores, raises, reverse, net) ==
  LET f == [Frame("rank_step", items) EXCEPT !.scores = scores, !.raises = raises]
      scored_items == [j \in 1..Len(items) |-> Item(items[j].id, scores[j])]
  IN IF raises # 0
       THEN \E e \in CallbackErrors : RaiseBefore(f, "Exception", e)
       ELSE Open([f EXCEPT !.items = sorted(scored_items, reverse)],
                 StepRequest("rank", "rank"), net)

\* one iteration of rank_step's loop over the ranked items
rank_step_item(net) ==
  LET j == frame.i + 1
      item == frame.items[j]
  IN /\ LogEvaluation(Eval(EntityId(item), [rank |-> j, score |-> item.score], TRUE, "Ranked"),
                      frame.kept, net)
     /\ UNCHANGED scopes

rank_step_output ==
  [ranked_count |-> Len(frame.items), top_3_ids |-> Top3Ids(frame.items)]

\* transform_step(xray, name, items, transform_fn, ...)
transform_step(items, images, raises, net) ==
  Open([Frame("transform_step", items) EXCEPT !.images = images, !.raises = raises],
       StepRequest("transform", "transform"), net)

\* one iteration of transform_step's loop: transform_fn(item),
\* transformed.append(transformed_item), step_ctx.log_evaluation
transform_step_item(net) ==
  LET j == frame.i + 1
      item == frame.items[j]
      transformed_item == frame.images[j]
  IN IF frame.raises = j
       THEN \E e \in CallbackErrors : RaiseInside(e)
       ELSE /\ LogEvaluation(Eval(EntityId(item), transformed_item, TRUE, "Transformed item"),
                             Append(frame.kept, transformed_item), net)
            /\ UNCHANGED scopes

transform_step_output == [transformed_count |-> Len(frame.kept)]

\* selected = select_fn(items) if select_fn else (items[0] if items else None)
Selected(items, select_fn) ==
  IF select_fn.given THEN select_fn.ret
  ELSE IF items # <<>> THEN <<items[1]>> ELSE <<>>

\* select_step(xray, name, items, select_fn, ...): the item is selected, and
\* an empty selection refused, before the with-block
select_step(items, select_fn, net) ==
  LET f == [Frame("select_step", items) EXCEPT !.select_fn = select_fn,
                                               !.raises = IF select_fn.raises THEN 1 ELSE 0]
  IN IF select_fn.given /\ select_fn.raises
       THEN \E e \in CallbackErrors : RaiseBefore(f, "Exception", e)
     ELSE IF Selected(items, select_fn) = <<>>
       THEN RaiseBefore(f, "ValueError", "No items to select from")
       ELSE Open([f EXCEPT !.items = Selected(items, select_fn)],
                 StepRequest("select", "select"), net)

\* the body of select_step's with-block records the selected item
select_step_item(net) ==
  LET selected == frame.items[1]
  IN /\ LogEvaluation(Eval(EntityId(selected), selected, TRUE, "Selected item"), frame.kept, net)
     /\ UNCHANGED scopes

select_step_output ==
  [selected_id |-> EntityId(frame.items[1]),
   selected_item |-> frame.items[1],
   total_candidates |-> Len(frame.args)]

\* ------------------------------------------------- the wrapper and the runner
\* sdk/xray.py: trace_function wraps one call of a function in a with-block;
\* StepRunner runs step configurations through the handlers registered for
\* their types. What the function or the handler does is an input of the call.

\* the except clause of trace_function and of execute_step:
\* step_ctx.set_output({"error": str(e)}) before the exception is raised again
ErrorOutput(e) == [some |-> TRUE, dict |-> [error |-> e]]

\* {"result": result}, the output of a call that returned
ResultOutput == [some |-> TRUE, dict |-> [result |-> 1]]

\* the functions whose with-block has the try/except clause around its body
Guarded == {"trace_function", "execute_step", "execute_pipeline"}

\* the wrapper that trace_function(xray, step_type)(func) returns, called
trace_function(body, net) ==
  Open([Frame("trace_function", <<>>) EXCEPT !.pc = "body", !.body = body],
       StepRequest("func", "default"), net)

\* with step(xray, name, ...) as step_ctx: written in the program itself
with_block(body, net) ==
  Open([Frame("with", <<>>) EXCEPT !.pc = "body", !.body = body],
       StepRequest("block", "default"), net)

\* the step types of the configurations; a configuration names its type and
\* carries the input on which the handler does what `handler` says
StepTypes == {"filter", "rank"}
ConfigInputs == { [name |-> t, type |-> t, handler |-> b] : t \in StepTypes, b \in BodyInputs }

\* StepRunner.register_handler
register_handler(step_type) == step_handlers' = step_handlers \cup {step_type}

\* (mutation) execute_step looks the handler up inside the with-block
execute_step_late_lookup(f, step_config, net) ==
  Open([f EXCEPT !.pc = "body",
                 !.body = IF step_config.type \in step_handlers
                            THEN step_config.handler
                            ELSE [raises |-> TRUE, evaluations |-> <<>>],
                 !.items = <<>>, !.i = 0],
       StepRequest(step_config.name, step_config.type), net)

\* StepRunner.execute_step, called from the program (f a new frame) or from
\* execute_pipeline (f its frame)
execute_step(f, step_config, net) ==
  IF step_config.type \notin step_handlers
    THEN RaiseBefore(f, "ValueError", "No handler registered for step type")
    ELSE Open([f EXCEPT !.pc = "body", !.body = step_config.handler, !.items = <<>>, !.i = 0],
              StepRequest(step_config.name, step_config.type), net)

\* result = func(*args, **kwargs), result = handler(input_data, rules), or the
\* body of the program's with-block: it raises, and the except clause sets the
\* error output, or it returns and its evaluations are to be logged
run_body ==
  IF frame.body.raises
    THEN \E e \in CallbackErrors :
           /\ frame' = [frame EXCEPT !.pc = "loop", !.kind = "Exception"]
           /\ exc' = e
           /\ IF frame.fn \in Guarded THEN set_output(ErrorOutput(e)) ELSE UNCHANGED scopes
    ELSE /\ frame' = [frame EXCEPT !.pc = "loop", !.items = frame.body.evaluations, !.i = 0]
         /\ UNCHANGED <<exc, scopes>>

\* step_ctx.log_evaluation(**eval_data) for the next extracted evaluation; an
\* exception of it goes through the except clause too
logged_item(net) ==
  /\ LogEvaluation(frame.items[frame.i + 1], frame.kept, net)
  /\ IF result'.outcome # "ok" /\ frame.fn \in Guarded
       THEN set_output(ErrorOutput(result'.error))
       ELSE UNCHANGED scopes

\* what the call in progress returns when its with-block is left normally
ReturnValue ==
  CASE frame.fn = "filter_step" -> frame.kept
    [] frame.fn = "rank_step" -> Unscored(frame.items)
    [] frame.fn = "transform_step" -> frame.kept
    [] frame.fn = "select_step" -> frame.items
    [] OTHER -> <<>>

\* the program calls a helper
FilterStep(nets) ==
  /\ Ready /\ ~Running
  /\ NumSteps < MaxOpened
  /\ \E items \in ItemLists :
       \E verdicts \in SeqsOfLen(BOOLEAN, Len(items)), raises \in 0..Len(items), net \in nets :
         filter_step(items, verdicts, raises, net)
  /\ UNCHANGED <<now, concVars, step_handlers>>

RankStep(nets) ==
  /\ Ready /\ ~Running
  /\ NumSteps < MaxOpened
  /\ \E items \in ItemLists :
       \E scores \in SeqsOfLen(ScoreInputs, Len(items)), raises \in 0..Len(items),
          reverse \in BOOLEAN, net \in nets :
         rank_step(items, scores, raises, reverse, net)
  /\ UNCHANGED <<now, concVars, step_handlers>>

TransformStep(nets) ==
  /\ Ready /\ ~Running
  /\ NumSteps < MaxOpened
  /\ \E items \in ItemLists :
       \E images \in SeqsOfLen(Items, Len(items)), raises \in 0..Len(items), net \in nets :
         transform_step(items, images, raises, net)
  /\ UNCHANGED <<now, concVars, step_handlers>>

SelectStep(nets) ==
  /\ Ready /\ ~Running
  /\ NumSteps < MaxOpened
  /\ \E items \in ItemLists, select_fn \in SelectFns, net \in nets :
       select_step(items, select_fn, net)
  /\ UNCHANGED <<now, concVars, step_handlers>>

\* the program calls a function wrapped by trace_function
TraceFunction(nets) ==
  /\ Ready /\ ~Running
  /\ NumSteps < MaxOpened
  /\ \E body \in BodyInputs, net \in nets : trace_function(body, net)
  /\ UNCHANGED <<now, concVars, step_handlers>>

\* the program enters a with-block of its own
WithBlock(nets) ==
  /\ Ready /\ ~Running
  /\ NumSteps < MaxOpened
  /\ \E body \in BodyInputs, net \in nets : with_block(body, net)
  /\ UNCHANGED <<now, concVars, step_handlers>>

\* runner.register_handler(step_type, handler)
RegisterHandler ==
  /\ Ready /\ ~Running
  /\ \E step_type \in StepTypes \ step_handlers : register_handler(step_type)
  /\ UNCHANGED <<storeVars, now, resp, logVars, clientVars, concVars, frame>>

\* runner.execute_step(step_config), while the store holds fewer than max steps
ExecuteStep(nets, max) ==
  /\ Ready /\ ~Running
  /\ NumSteps < max
  /\ \E step_config \in ConfigInputs, net \in nets :
       execute_step([Frame("execute_step", <<>>) EXCEPT !.configs = <<step_config>>],
                    step_config, net)
  /\ UNCHANGED <<now, concVars, step_handlers>>

\* runner.execute_pipeline(steps): outputs = [], and the loop begins
ExecutePipeline(max) ==
  /\ Ready /\ ~Running
  /\ \E steps_ \in SeqsUpTo(ConfigInputs, MaxConfigs) :
       /\ NumSteps + Len(steps_) <= max
       /\ frame' = [Frame("execute_pipeline", <<>>) EXCEPT !.pc = "next", !.configs = steps_]
  /\ UNCHANGED <<storeVars, now, resp, logVars, clientVars, concVars, step_handlers>>

\* (mutation) execute_pipeline goes through the configurations from the last
\* to the first
PipelineNext_reversed(nets) ==
  /\ Running /\ frame.pc = "next"
  /\ IF frame.k = Len(frame.configs)
       THEN /\ frame' = [frame EXCEPT !.pc = "returned"]
            /\ UNCHANGED <<storeVars, resp, logVars, clientVars>>
       ELSE \E net \in nets :
              execute_step(frame, frame.configs[Len(frame.configs) - frame.k], net)
  /\ UNCHANGED <<now, concVars, step_handlers>>

\* for step_config in steps: output = self.execute_step(step_config); after
\* the last one, return outputs
PipelineNext(nets) ==
  /\ Running /\ frame.pc = "next"
  /\ IF frame.k = Len(frame.configs)
       THEN /\ frame' = [frame EXCEPT !.pc = "returned"]
            /\ UNCHANGED <<storeVars, resp, logVars, clientVars>>
       ELSE \E net \in nets : execute_step(frame, frame.configs[frame.k + 1], net)
  /\ UNCHANGED <<now, concVars, step_handlers>>

\* the wrapped function, the handler or the body of the block runs
RunBody ==
  /\ Running /\ frame.pc = "body"
  /\ exc = NoExc
  /\ run_body
  /\ UNCHANGED <<storeVars, now, resp, logVars, execution_id, current_step_id, result, concVars,
                  step_handlers>>

\* the next iteration of the loop of the with-block
HelperItem(nets) ==
  /\ Running /\ frame.pc = "loop"
  /\ exc = NoExc
  /\ frame.i < Len(frame.items)
  /\ \E net \in nets :
       CASE frame.fn = "filter_step" -> filter_step_item(net)
         [] frame.fn = "rank_step" -> rank_step_item(net)
         [] frame.fn = "transform_step" -> transform_step_item(net)
         [] frame.fn = "select_step" -> select_step_item(net)
         [] OTHER -> logged_item(net)
  /\ UNCHANGED <<now, concVars, step_handlers>>

\* step_ctx.set_output({...}) after the loop
HelperOutput ==
  /\ Running /\ frame.pc = "loop"
  /\ exc = NoExc
  /\ frame.i = Len(frame.items)
  /\ set_output(CASE frame.fn = "filter_step" -> [some |-> TRUE, dict |-> filter_step_output]
                  [] frame.fn = "rank_step" -> [some |-> TRUE, dict |-> rank_step_output]
                  [] frame.fn = "transform_step" -> [some |-> TRUE, dict |-> transform_step_output]
                  [] frame.fn = "select_step" -> [some |-> TRUE, dict |-> select_step_output]
                  [] OTHER -> ResultOutput)
  /\ frame' = [frame EXCEPT !.pc = "output"]
  /\ UNCHANGED <<storeVars, now, resp, logVars, execution_id, current_step_id, exc, result, concVars,
                  step_handlers>>

\* (mutation) __exit__ returns True: the with-block swallows the exception in
\* flight and the call returns
HelperExit_suppressing(nets) ==
  /\ Running /\ frame.pc \in {"loop", "output"}
  /\ frame.pc = "output" \/ exc # NoExc
  /\ \E net \in nets : StepContext_exit(net)
  /\ LET ended == result'.outcome = "ok"
         e == IF ended THEN NoExc ELSE result'.error
         done == e = NoExc /\ frame.fn \in {"execute_step", "execute_pipeline"}
     IN /\ frame' = [frame EXCEPT !.pc = IF e # NoExc THEN "raised"
                                         ELSE IF frame.fn = "execute_pipeline" THEN "next"
                                         ELSE "returned",
                                  !.kind = IF ended THEN "ok" ELSE result'.outcome,
                                  !.error = e,
                                  !.ret = IF e = NoExc THEN ReturnValue ELSE <<>>,
                                  !.k = IF done THEN @ + 1 ELSE @,
                                  !.outputs = IF done
                                                THEN Append(@, scopes[Len(scopes)].output.dict)
                                                ELSE @,
                                  !.n.end_step = @ + 1]
        /\ exc' = Propagate(e, scopes')
  /\ LogAfter
  /\ UNCHANGED <<now, concVars, step_handlers>>

\* the with-block of the call is left, by the end of its body or by the
\* exception in flight; the call returns or raises, and a pipeline that went
\* through the step goes on to its next configuration
HelperExit(nets) ==
  /\ Running /\ frame.pc \in {"loop", "output"}
  /\ frame.pc = "output" \/ exc # NoExc
  /\ \E net \in nets : StepContext_exit(net)
  /\ LET ended == result'.outcome = "ok"
         e == IF ended THEN exc ELSE result'.error
         done == e = NoExc /\ frame.fn \in {"execute_step", "execute_pipeline"}
     IN /\ frame' = [frame EXCEPT !.pc = IF e # NoExc THEN "raised"
                                         ELSE IF frame.fn = "execute_pipeline" THEN "next"
                                         ELSE "returned",
                                  !.kind = IF ended THEN @ ELSE result'.outcome,
                                  !.error = e,
                                  !.ret = IF e = NoExc THEN ReturnValue ELSE <<>>,
                                  !.k = IF done THEN @ + 1 ELSE @,
                                  !.outputs = IF done
                                                THEN Append(@, scopes[Len(scopes)].output.dict)
                                                ELSE @,
                                  !.n.end_step = @ + 1]
        /\ exc' = Propagate(e, scopes')
  /\ LogAfter
  /\ UNCHANGED <<now, concVars, step_handlers>>

HelpersNext ==
  \/ Continue
  \/ ~Running /\ NumExecs < MaxExecs /\ StartExecution(Reliable)
  \/ ~Running /\ EndExecution(Reliable)
  \/ FilterStep(Reliable)
  \/ RankStep(Reliable)
  \/ TransformStep(Reliable)
  \/ SelectStep(Reliable)
  \/ TraceFunction(Reliable)
  \/ WithBlock(Reliable)
  \/ RegisterHandler
  \/ ExecuteStep(Reliable, MaxOpened)
  \/ RunBody
  \/ HelperItem(Reliable)
  \/ HelperOutput
  \/ HelperExit(Reliable)

\* one program calling the helpers, a wrapped function, the runner and a
\* with-block of its own on one XRay client, over a network that loses nothing
SpecHelpers == Init /\ [][HelpersNext]_vars

RunnerNext ==
  \/ Continue
  \/ ~Running /\ NumExecs < MaxExecs /\ StartExecution(Reliable)
  \/ RegisterHandler
  \/ ExecutePipeline(MaxSteps)
  \/ PipelineNext(Reliable)
  \/ RunBody
  \/ HelperItem(Reliable)
  \/ HelperOutput
  \/ HelperExit(Reliable)

\* one program running pipelines of step configurations through one runner
SpecRunner == Init /\ [][RunnerNext]_vars

\* ------------------------------------------------------ claims on the client

\* a with-block is left in this step
ExitStep == Len(scopes') < Len(scopes)

\* C1 (as stated): every exit of a with-block, by the end of its body or by an
\* exception, closes the step that was opened on entry: after the exit that
\* step has ended_at set in the store.
C1_ExitClosesOpenedStep ==
  [][ ExitStep => steps'[scopes[Len(scopes)].opened].ended_at # None ]_vars

\* C2: record_evaluation and end_step without a current step, and start_step
\* and end_execution without a current execution, raise the invalid-state error
\* (ValueError) with no request sent and nothing changed in the client or the
\* store.
C2_InvalidStateBeforeRequest ==
  [][ ( \/ result'.call \in {"record_evaluation", "end_step"} /\ current_step_id = None
        \/ result'.call \in {"start_step", "end_execution"} /\ execution_id = None )
        => /\ result'.outcome = "ValueError"
           /\ resp'.op = "none"
           /\ UNCHANGED <<executions, steps, nextId, execution_id, current_step_id>> ]_vars

\* end_step refused on a client with an execution but no step, the store
\* holding a step already
C2_Witness ==
  /\ result.call = "end_step"
  /\ result.outcome = "ValueError"
  /\ execution_id # None
  /\ DOMAIN steps # {}

\* start_execution is called on a client that is not idle
BusyStartExecution ==
  /\ result'.call = "start_execution"
  /\ (execution_id # None \/ current_step_id # None)

\* C3 (as stated): start_execution on a client that has a current execution or
\* a current step fails with the invalid-state error, creates no execution and
\* leaves the current execution as it was.
C3_StartExecutionOnlyFromIdle ==
  [][ BusyStartExecution
        => /\ result'.outcome = "ValueError"
           /\ DOMAIN executions' = DOMAIN executions
           /\ execution_id' = execution_id ]_vars

\* C3: start_execution has no state guard. On a client that has a current
\* execution or a current step it raises no invalid-state error: it sends its
\* request, and a request that is answered creates a new running execution,
\* which becomes the current execution; the executions stored before and the
\* current step are left as they were.
C3_StartExecutionUnguarded ==
  [][ BusyStartExecution
        => /\ result'.outcome \in {"ok", "XRayError"}
           /\ result'.net = "ok" => result'.outcome = "ok"
           /\ result'.outcome = "ok" =>
                /\ execution_id' \notin DOMAIN executions
                /\ execution_id' \in DOMAIN executions'
                /\ executions'[execution_id'].status = "running"
           /\ \A e \in DOMAIN executions : executions'[e] = executions[e]
           /\ current_step_id' = current_step_id ]_vars

\* a second execution started while a step of the first one is current
C3_Witness ==
  /\ result.call = "start_execution"
  /\ result.outcome = "ok"
  /\ NumExecs = 2
  /\ current_step_id # None
  /\ steps[current_step_id].execution_id # execution_id

\* ------------------------------------------------------- claims on the store

\* C4 (as stated): in every reachable store state each execution has ended_at
\* set if and only if its status is not running.
C4_EndedIffNotRunning ==
  \A e \in DOMAIN executions :
    (executions[e].ended_at # None) <=> (executions[e].status # "running")

\* C4: right after CreateExecution the execution is running with ended_at
\* unset, and right after an UpdateExecution that supplies a status other than
\* running together with an ended_at the execution has ended_at set and a
\* status that is not running; the store keeps the equivalence in those cases
\* only.
C4_EndedWithTerminalStatus ==
  /\ resp.op = "create_execution" =>
       \A e \in DOMAIN executions :
         e = resp.body.execution_id =>
           executions[e].status = "running" /\ executions[e].ended_at = None
  /\ ( /\ resp.op = "update_execution"
       /\ resp.code = 200
       /\ resp.req.status \notin {NoStatus, "running"}
       /\ resp.req.ended_at # None )
     => /\ executions[resp.req.id].ended_at # None
        /\ executions[resp.req.id].status # "running"

C4_Witness ==
  /\ resp.op = "update_execution"
  /\ resp.code = 200
  /\ resp.req.status = "completed"
  /\ resp.req.ended_at # None
  /\ executions[resp.req.id].steps # <<>>

\* C5: CreateStep with an execution id that is not in the store answers
\* NotFound and leaves the store as it was: no step in the step index or in any
\* execution's step list, no execution created.
C5_CreateStepNotFound ==
  [][ (resp'.op = "create_step" /\ resp'.req.id \notin DOMAIN executions)
        => /\ resp'.code = 404
           /\ UNCHANGED <<executions, steps, nextId>> ]_vars

C5_Witness ==
  /\ resp.op = "create_step"
  /\ resp.code = 404
  /\ DOMAIN executions # {}
  /\ DOMAIN steps # {}

\* the entity kind an endpoint looks its id up in
ExecutionOps == {"get_execution", "update_execution", "list_steps"}
StepOps == {"get_step", "update_step", "add_evaluation"}

C7_EvaluationsInCallOrder ==
  \A s \in DOMAIN steps : steps[s].evaluations = evalLog[s]

C7_Witness ==
  \E s \in DOMAIN steps :
    /\ Len(steps[s].evaluations) = 2
    /\ steps[s].evaluations[1].entity_id = steps[s].evaluations[2].entity_id
    /\ steps[s].evaluations[1] # steps[s].evaluations[2]

StepIds(body) == [i \in DOMAIN body |-> body[i].step_id]

\* C8: ListSteps, and the step list of GetExecution, return exactly the steps
\* created in the execution, in creation order, whatever AddEvaluation and
\* UpdateStep calls were made in between.
C8_StepsInCreationOrder ==
  /\ (resp.op = "list_steps" /\ resp.code = 200)
       => StepIds(resp.body) = stepLog[resp.req.id]
  /\ (resp.op = "get_execution" /\ resp.code = 200)
       => StepIds(resp.body.steps) = stepLog[resp.req.id]

\* two steps, the second one evaluated and the first one updated
C8_Witness ==
  /\ resp.op = "list_steps"
  /\ resp.code = 200
  /\ Len(resp.body) = 2
  /\ resp.body[2].evaluations # <<>>
  /\ resp.body[1].evaluations = <<>>
  /\ resp.body[1].ended_at # None

\* ---------------------------------------------- claims on the store under load

\* the calls of caller c against step s that were answered, in program order
AnsweredCalls(c, s) == SelectSeq(sent[c], LAMBDA r : r.id = s)

\* the entries of caller c in the evaluation list of step s
EntriesOf(c, s) == SelectSeq(steps[s].evaluations, LAMBDA ev : ev.reason = CallerName(c))

RECURSIVE NumAnswered(_, _)
NumAnswered(S, s) ==
  IF S = {} THEN 0
  ELSE LET c == CHOOSE c \in S : TRUE IN Len(AnsweredCalls(c, s)) + NumAnswered(S \ {c}, s)

\* C9: once every AddEvaluation call of every caller has returned, each call
\* was answered, the evaluation list of each step has exactly one entry per
\* call made against it, and the entries of one caller are the payloads of its
\* calls in its program order.
C9_NoLostEvaluation ==
  (\A c \in Callers : pending[c].op # "add_evaluation") =>
     /\ \A c \in Callers : Len(sent[c]) = calls[c]
     /\ \A s \in DOMAIN steps :
          /\ Len(steps[s].evaluations) = NumAnswered(Callers, s)
          /\ \A c \in Callers :
               EntriesOf(c, s) = [i \in DOMAIN AnsweredCalls(c, s) |-> AnsweredCalls(c, s)[i].body]

\* two callers with two calls each against one step, all returned, one of them
\* served while a call of the other caller was in flight
C9_Witness ==
  /\ \A c \in Callers : pending[c].op # "add_evaluation" /\ Len(sent[c]) = 2
  /\ \E s \in DOMAIN steps :
       /\ Len(steps[s].evaluations) = 4
       /\ \E c \in Callers : \E i \in DOMAIN sent[c] :
            sent[c][i].id = s /\ sent[c][i].overlap # {}

\* every step of the step index is in the step list of its execution, and
\* every entry of a step list is in the step index
IndexesAgree ==
  /\ \A s \in DOMAIN steps :
       /\ steps[s].execution_id \in DOMAIN executions
       /\ \E i \in DOMAIN executions[steps[s].execution_id].steps :
            executions[steps[s].execution_id].steps[i] = s
  /\ \A e \in DOMAIN executions :
       \A i \in DOMAIN executions[e].steps : executions[e].steps[i] \in DOMAIN steps

\* C10: whenever GetStep, GetExecution or ListSteps is answered, with
\* CreateStep requests of other callers in flight, the step index and the step
\* lists agree: the reader sees no step that is in one and not in the other.
C10_ReadersSeeBothIndexes ==
  resp.op \in ReadOps => IndexesAgree

\* a reader answered with a step while the CreateStep request of another caller
\* waits to be served
C10_Witness ==
  /\ resp.op \in ReadOps
  /\ resp.code = 200
  /\ DOMAIN steps # {}
  /\ Waiting("create_step") # {}

\* ------------------------------------------------- claims on stored lists

\* sequence p is the beginning of sequence q
IsPrefix(p, q) == Len(p) <= Len(q) /\ SubSeq(q, 1, Len(p)) = p

\* C11: in every step of every behaviour no execution and no step is removed,
\* the step list of each execution and the evaluation list of each step are a
\* prefix of what they are afterwards, so the lists only grow at the end and
\* an evaluation, once appended, keeps its four fields.
C11_ListsAppendOnly ==
  [][ /\ \A e \in DOMAIN executions :
           /\ e \in DOMAIN executions'
           /\ IsPrefix(executions[e].steps, executions'[e].steps)
      /\ \A s \in DOMAIN steps :
           /\ s \in DOMAIN steps'
           /\ IsPrefix(steps[s].evaluations, steps'[s].evaluations) ]_vars

\* a step with two evaluations has just been updated, in an execution that
\* holds two steps
C11_Witness ==
  /\ resp.op = "update_step"
  /\ resp.code = 200
  /\ Len(steps[resp.req.id].evaluations) = 2
  /\ resp.body.output.passed # None
  /\ Len(executions[steps[resp.req.id].execution_id].steps) = 2

\* ------------------------------------------------------ claims on round trips

\* every key of the dictionary sent is in the record read back, with its value
ReadsBack(sentDict, readRecord) ==
  \A k \in DOMAIN sentDict : k \in DOMAIN readRecord /\ readRecord[k] = sentDict[k]

\* the step read back has the fields of its CreateStep request, the evaluations
\* of its AddEvaluation calls and every key of the output last written
StepReadsBack(st) ==
  /\ st.name = written.step[st.step_id].name
  /\ st.type = written.step[st.step_id].type
  /\ st.input = written.step[st.step_id].input
  /\ st.rules = written.step[st.step_id].rules
  /\ st.evaluations = evalLog[st.step_id]
  /\ st.step_id \in DOMAIN written.output => ReadsBack(written.output[st.step_id], st.output)

\* C12 (as stated): GetExecution reproduces every field written: every
\* metadata key, each step's name, type, input and rules, each evaluation, and
\* every key of the output map written by UpdateStep.
C12_RoundTrip ==
  (resp.op = "get_execution" /\ resp.code = 200) =>
     /\ ReadsBack(written.metadata[resp.req.id], resp.body.metadata)
     /\ \A i \in DOMAIN resp.body.steps : StepReadsBack(resp.body.steps[i])

\* the execution read back is a complete session: one step was created in it,
\* the step was ended with an output that has a filtered_count, and the
\* execution was ended with status completed
CompleteSession(e) ==
  /\ Len(stepLog[e]) = 1
  /\ stepLog[e][1] \in DOMAIN written.output
  /\ "filtered_count" \in DOMAIN written.output[stepLog[e][1]]
  /\ executions[e].status = "completed"

\* C13 (as stated): after a complete session GetExecution shows exactly one
\* step, in it the evaluations of the session in call order and an output whose
\* filtered_count is the one written, status completed and ended_at set.
C13_SessionReadBack ==
  (resp.op = "get_execution" /\ resp.code = 200 /\ CompleteSession(resp.req.id)) =>
     /\ Len(resp.body.steps) = 1
     /\ resp.body.steps[1].evaluations = evalLog[stepLog[resp.req.id][1]]
     /\ "filtered_count" \in DOMAIN resp.body.steps[1].output
     /\ resp.body.steps[1].output["filtered_count"]
          = written.output[stepLog[resp.req.id][1]]["filtered_count"]
     /\ resp.body.status = "completed"
     /\ resp.body.ended_at # None

\* C14 (as stated): when a with-block is left by an exception of its body, the
\* step it opened is closed and the output stored for that step has an error
\* field that holds the description of the exception.
C14_ErrorInStoredOutput ==
  [][ (ExitStep /\ exc # NoExc)
        => /\ steps'[scopes[Len(scopes)].opened].ended_at # None
           /\ "error" \in DOMAIN steps'[scopes[Len(scopes)].opened].output
           /\ steps'[scopes[Len(scopes)].opened].output["error"] = exc ]_vars

\* ------------------------------------------------ claims on ending a step

\* end_step has returned without an exception
EndStepReturned == result'.call = "end_step" /\ result'.outcome = "ok"

ExecutionUpdated == resp'.op = "update_execution" /\ resp'.code = 200

\* C16: UpdateExecution changes the fields it is given and no other: status
\* becomes the status supplied and stays as it was when none is supplied,
\* ended_at becomes the ended_at supplied and stays as it was when none is
\* supplied, whatever the status; execution_id, name, started_at, metadata and
\* the step list, the other executions and the steps stay as they were.
C16_UpdateExecutionFrame ==
  [][ ExecutionUpdated
        => /\ executions'[resp'.req.id].status =
                IF resp'.req.status # NoStatus THEN resp'.req.status
                ELSE executions[resp'.req.id].status
           /\ executions'[resp'.req.id].ended_at =
                IF resp'.req.ended_at # None THEN resp'.req.ended_at
                ELSE executions[resp'.req.id].ended_at
           /\ executions'[resp'.req.id].execution_id = executions[resp'.req.id].execution_id
           /\ executions'[resp'.req.id].name = executions[resp'.req.id].name
           /\ executions'[resp'.req.id].started_at = executions[resp'.req.id].started_at
           /\ executions'[resp'.req.id].metadata = executions[resp'.req.id].metadata
           /\ executions'[resp'.req.id].steps = executions[resp'.req.id].steps
           /\ DOMAIN executions' = DOMAIN executions
           /\ \A e \in DOMAIN executions \ {resp'.req.id} : executions'[e] = executions[e]
           /\ UNCHANGED <<steps, nextId>> ]_vars

\* a terminal status supplied alone: ended_at is still unset
C16_Witness ==
  /\ resp.op = "update_execution"
  /\ resp.code = 200
  /\ resp.req.status = "completed"
  /\ resp.req.ended_at = None
  /\ executions[resp.req.id].status = "completed"
  /\ executions[resp.req.id].ended_at = None
  /\ executions[resp.req.id].steps # <<>>

\* C17 (as stated): the ended_at of an execution is set at most once, in the
\* operation that moves its status out of running, and once set it is neither
\* changed nor cleared.
C17_EndedAtSetOnce ==
  [][ \A e \in DOMAIN executions :
        /\ executions[e].ended_at # None
             => executions'[e].ended_at = executions[e].ended_at
        /\ (executions[e].ended_at = None /\ executions'[e].ended_at # None)
             => executions[e].status = "running" /\ executions'[e].status # "running" ]_vars

\* C17: the ended_at of an execution is never cleared once it is set, and it
\* changes only in an UpdateExecution on that execution that supplies an
\* ended_at, to the value supplied: whatever the status is or becomes, and also
\* when ended_at was set before.
C17_EndedAtOverwrittenNeverCleared ==
  [][ \A e \in DOMAIN executions :
        /\ executions[e].ended_at # None => executions'[e].ended_at # None
        /\ executions'[e].ended_at # executions[e].ended_at
             => /\ ExecutionUpdated
                /\ resp'.req.id = e
                /\ resp'.req.ended_at # None
                /\ executions'[e].ended_at = resp'.req.ended_at ]_vars

\* ended_at supplied without a status to an execution that stays running, and
\* set to a time before the execution started
C17_Witness ==
  /\ resp.op = "update_execution"
  /\ resp.code = 200
  /\ resp.req.status = NoStatus
  /\ resp.req.ended_at # None
  /\ executions[resp.req.id].status = "running"
  /\ executions[resp.req.id].ended_at = resp.req.ended_at
  /\ executions[resp.req.id].ended_at < executions[resp.req.id].started_at

\* the status values the Execution model documents
DocumentedStatuses == {"running", "completed", "failed"}

Min(a, b) == IF a < b THEN a ELSE b

\* the ids of the executions in the body of a ListExecutions response
ListedIds(body) == {body[i].execution_id : i \in DOMAIN body}

\* C19: ListExecutions with limit >= 0 on a store of n executions returns
\* min(limit, n) executions, each one stored and none twice, with their stored
\* content, ordered by non-increasing started_at, and no execution left out
\* has a started_at later than one that is returned.
C19_ListExecutionsNewestFirst ==
  (resp.op = "list_executions" /\ resp.req.limit >= 0) =>
     /\ Len(resp.body) = Min(resp.req.limit, NumExecs)
     /\ ListedIds(resp.body) \subseteq DOMAIN executions
     /\ Cardinality(ListedIds(resp.body)) = Len(resp.body)
     /\ \A i \in DOMAIN resp.body :
          resp.body[i] = SerializeExecution(executions, steps, resp.body[i].execution_id)
     /\ \A i, j \in DOMAIN resp.body :
          i < j => resp.body[i].started_at >= resp.body[j].started_at
     /\ \A e \in DOMAIN executions \ ListedIds(resp.body) :
          \A i \in DOMAIN resp.body : executions[e].started_at <= resp.body[i].started_at

\* three executions, the last one created later than the first one: the list
\* of two starts with the last one and leaves an earlier one out
C19_Witness ==
  /\ resp.op = "list_executions"
  /\ resp.req.limit = 2
  /\ NumExecs = 3
  /\ Len(resp.body) = 2
  /\ resp.body[1].started_at > resp.body[2].started_at
  /\ resp.body[1].execution_id > resp.body[2].execution_id

\* ------------------------------------------------------- claims on the reads

\* the endpoints that read
QueryOps == {"get_execution", "get_step", "list_steps", "list_executions"}

\* C20: GetExecution, GetStep, ListSteps and ListExecutions leave the store as
\* it was, found or not; the content GetExecution returns is the content the
\* same call returns in the state it leaves, so a second GetExecution on the
\* same id with no write in between returns the same content.
C20_ReadsLeaveStore ==
  [][ resp'.op \in QueryOps
        => /\ UNCHANGED <<executions, steps, nextId>>
           /\ (resp'.op = "get_execution" /\ resp'.code = 200)
                => resp'.body = SerializeExecution(executions', steps', resp'.req.id) ]_vars

\* a listing that returns nothing from a store that holds an execution with an
\* evaluated step
C20_Witness ==
  /\ resp.op = "list_executions"
  /\ resp.req.limit = 0
  /\ resp.body = <<>>
  /\ \E e \in DOMAIN executions : executions[e].steps # <<>>
  /\ \E s \in DOMAIN steps : steps[s].evaluations # <<>>

\* ------------------------------------------------ claims on a new execution

\* C21: a GetExecution issued right after a CreateExecution, on the id that
\* was returned, finds the execution, with an empty step list, status running
\* and ended_at unset, whatever executions and steps the store holds already.
C21_CreatedExecutionReadsBackNew ==
  [][ (resp.op = "create_execution" /\ resp'.op = "get_execution")
        => /\ resp'.req.id = resp.body.execution_id
           /\ resp'.code = 200
           /\ resp'.body.execution_id = resp.body.execution_id
           /\ resp'.body.steps = <<>>
           /\ resp'.body.status = "running"
           /\ resp'.body.ended_at = None ]_vars

\* the execution created last is read back from a store that holds an
\* execution that is not running and has an evaluated step
C21_Witness ==
  /\ resp.op = "get_execution"
  /\ resp.code = 200
  /\ resp.req.id = nextId - 1
  /\ resp.body.steps = <<>>
  /\ \E e \in DOMAIN executions \ {resp.req.id} :
       /\ executions[e].status # "running"
       /\ executions[e].ended_at # None
       /\ executions[e].steps # <<>>
  /\ \E s \in DOMAIN steps : steps[s].evaluations # <<>>

\* ------------------------------------------------- claims on a step's output

\* the fields of a StepOutput
OutputFields == {"passed", "failed", "selected_ids", "data"}

\* UpdateStep has been answered with the step
StepUpdated == resp'.op = "update_step" /\ resp'.code = 200

\* the UpdateStep request answered supplies an output that is not empty
OutputSupplied == resp'.req.body.output.some /\ resp'.req.body.output.dict # <<>>

\* C22: a step has one output, a StepOutput record, and the last write wins:
\* an UpdateStep that supplies a non-empty output replaces the whole output
\* (a field the new output does not name is reset to None, not kept), an
\* UpdateStep that supplies no output or an empty one leaves the output as it
\* was, and nothing else changes the output of a step.
C22_OutputLastWriteWins ==
  [][ /\ StepUpdated =>
           /\ DOMAIN steps'[resp'.req.id].output = OutputFields
           /\ OutputSupplied =>
                \A f \in OutputFields :
                   steps'[resp'.req.id].output[f] = DictGet(resp'.req.body.output.dict, f)
           /\ ~OutputSupplied =>
                steps'[resp'.req.id].output = steps[resp'.req.id].output
      /\ \A s \in DOMAIN steps :
           steps'[s].output # steps[s].output => StepUpdated /\ resp'.req.id = s ]_vars

\* an UpdateStep that supplies an empty output is answered on a step that keeps
\* the passed count written before; another step, evaluated, was last written
\* an output that names no declared field and has every field unset
C22_Witness ==
  /\ resp.op = "update_step"
  /\ resp.code = 200
  /\ resp.req.body.output.some
  /\ resp.req.body.output.dict = <<>>
  /\ steps[resp.req.id].output.passed = 2
  /\ \E s \in DOMAIN written.output :
       /\ "passed" \notin DOMAIN written.output[s]
       /\ steps[s].output = EmptyStepOutput
       /\ steps[s].evaluations # <<>>

\* ------------------------------------------------------- claims on identity

\* C23: no operation of the endpoints removes an execution or a step or
\* changes, once it is created, the execution_id or started_at of an execution
\* or the step_id, execution_id, started_at or rules of a step; and every
\* execution and every step is stored under the key that is its own id.
C23_IdentityImmutable ==
  [][ /\ \A e \in DOMAIN executions :
           /\ e \in DOMAIN executions'
           /\ executions'[e].execution_id = executions[e].execution_id
           /\ executions'[e].started_at = executions[e].started_at
      /\ \A s \in DOMAIN steps :
           /\ s \in DOMAIN steps'
           /\ steps'[s].step_id = steps[s].step_id
           /\ steps'[s].execution_id = steps[s].execution_id
           /\ steps'[s].started_at = steps[s].started_at
           /\ steps'[s].rules = steps[s].rules
      /\ \A e \in DOMAIN executions' : executions'[e].execution_id = e
      /\ \A s \in DOMAIN steps' : steps'[s].step_id = s ]_vars

\* an execution that had ended is set to running again, later than it was
\* started, with a step in it that was evaluated and updated
C23_Witness ==
  /\ resp.op = "update_execution"
  /\ resp.code = 200
  /\ resp.req.status = "running"
  /\ executions[resp.req.id].started_at < now
  /\ executions[resp.req.id].ended_at # None
  /\ \E i \in DOMAIN executions[resp.req.id].steps :
       LET s == executions[resp.req.id].steps[i] IN
       /\ steps[s].execution_id = resp.req.id
       /\ steps[s].evaluations # <<>>
       /\ steps[s].ended_at # None
       /\ steps[s].output # EmptyStepOutput

\* --------------------------------------- claims on a finalized execution

\* the endpoints that write to a step or to the step list of an execution
StepWriteOps == {"create_step", "add_evaluation", "update_step"}

\* execution e is stored and its status is not running
Finalized(e) == e \in DOMAIN executions /\ executions[e].status # "running"

\* the steps in the step list of execution e
StepsOf(e) == {executions[e].steps[i] : i \in DOMAIN executions[e].steps}

\* C24 (as stated): once the status of an execution is not running, CreateStep,
\* AddEvaluation and UpdateStep leave its step list and the evaluations, output
\* and ended_at of its steps as they were.
C24_FinalizedIsFrozen ==
  [][ \A e \in DOMAIN executions :
        (Finalized(e) /\ resp'.op \in StepWriteOps)
          => /\ executions'[e].steps = executions[e].steps
             /\ \A s \in StepsOf(e) :
                  /\ steps'[s].evaluations = steps[s].evaluations
                  /\ steps'[s].output = steps[s].output
                  /\ steps'[s].ended_at = steps[s].ended_at ]_vars

\* C24: the store does not look at the status. CreateStep, AddEvaluation and
\* UpdateStep against an execution that is not running are answered as against
\* a running one and take effect: the new step is appended at the end of the
\* step list, the evaluation at the end of the step's evaluation list, and
\* ended_at of the step is set to the value supplied or to the server clock.
\* The entries already in the two lists keep their place and content, and the
\* status and ended_at of the execution stay as they were.
C24_FinalizedAcceptsWrites ==
  [][ /\ (resp'.op = "create_step" /\ Finalized(resp'.req.id))
           => /\ resp'.code = 200
              /\ resp'.body.step_id \notin DOMAIN steps
              /\ executions'[resp'.req.id].steps =
                   Append(executions[resp'.req.id].steps, resp'.body.step_id)
      /\ ( /\ resp'.op = "add_evaluation"
           /\ resp'.req.id \in DOMAIN steps
           /\ Finalized(steps[resp'.req.id].execution_id) )
           => /\ resp'.code = 200
              /\ steps'[resp'.req.id].evaluations =
                   Append(steps[resp'.req.id].evaluations, resp'.req.body)
      /\ ( /\ resp'.op = "update_step"
           /\ resp'.req.id \in DOMAIN steps
           /\ Finalized(steps[resp'.req.id].execution_id) )
           => /\ resp'.code = 200
              /\ steps'[resp'.req.id].ended_at =
                   IF resp'.req.body.ended_at # None THEN resp'.req.body.ended_at ELSE now
              /\ steps'[resp'.req.id].evaluations = steps[resp'.req.id].evaluations
      /\ \A e \in DOMAIN executions :
           (Finalized(e) /\ resp'.op \in StepWriteOps)
             => /\ executions'[e].status = executions[e].status
                /\ executions'[e].ended_at = executions[e].ended_at
                /\ IsPrefix(executions[e].steps, executions'[e].steps)
                /\ \A s \in StepsOf(e) :
                     IsPrefix(steps[s].evaluations, steps'[s].evaluations) ]_vars

\* a second step created in an execution that is completed and has ended, its
\* first step evaluated
C24_Witness ==
  /\ resp.op = "create_step"
  /\ resp.code = 200
  /\ executions[resp.req.id].status = "completed"
  /\ executions[resp.req.id].ended_at # None
  /\ Len(executions[resp.req.id].steps) = 2
  /\ executions[resp.req.id].steps[2] = resp.body.step_id
  /\ steps[executions[resp.req.id].steps[1]].evaluations # <<>>
  /\ steps[resp.body.step_id].started_at > executions[resp.req.id].ended_at

\* ------------------------------------------ claims on steps left open

\* start_step is called on a client that has a current step
SecondStartStep ==
  /\ result'.call = "start_step"
  /\ execution_id # None
  /\ current_step_id # None

\* C25: start_step on a client that has a current step is not rejected: it
\* sends its request, and a request that is answered creates a new open step,
\* appended at the end of the current execution's step list, which becomes the
\* current step; the step that was current is left as it was. Every call on
\* the client changes no step but the current one, and the current step only
\* ever changes to a new step or to none: a step that is open when it stops
\* being current stays open, and later record_evaluation and end_step calls
\* apply to the new step only.
C25_SecondStepOrphansFirst ==
  [][ /\ SecondStartStep
           => /\ result'.outcome \in {"ok", "XRayError"}
              /\ result'.net = "ok" => result'.outcome = "ok"
              /\ result'.outcome = "ok" =>
                   /\ current_step_id' \notin DOMAIN steps
                   /\ current_step_id' \in DOMAIN steps'
                   /\ steps'[current_step_id'].ended_at = None
                   /\ executions'[execution_id].steps =
                        Append(executions[execution_id].steps, current_step_id')
              /\ steps'[current_step_id] = steps[current_step_id]
      /\ \A s \in DOMAIN steps : s # current_step_id => steps'[s] = steps[s]
      /\ current_step_id' \in {current_step_id, None} \cup (DOMAIN steps' \ DOMAIN steps) ]_vars

\* the second step of an execution has been ended; the first one, which was
\* evaluated while it was current, is still open
C25_Witness ==
  /\ result.call = "end_step"
  /\ result.outcome = "ok"
  /\ current_step_id = None
  /\ execution_id # None
  /\ Len(executions[execution_id].steps) = 2
  /\ resp.req.id = executions[execution_id].steps[2]
  /\ steps[executions[execution_id].steps[2]].ended_at # None
  /\ steps[executions[execution_id].steps[2]].evaluations # <<>>
  /\ steps[executions[execution_id].steps[1]].ended_at = None
  /\ steps[executions[execution_id].steps[1]].evaluations # <<>>


\* end_execution is called on a client that has a current step
EndExecutionWithOpenStep ==
  /\ result'.call = "end_execution"
  /\ execution_id # None
  /\ current_step_id # None

\* C26: end_execution on a client that has a current step is not refused: a
\* request that is answered succeeds and gives the current execution the
\* status requested and an ended_at. No step is closed or changed in the
\* store: the current step keeps its ended_at, output and evaluations.
C26_EndExecutionLeavesOpenStep ==
  [][ EndExecutionWithOpenStep
        => /\ result'.outcome \in {"ok", "XRayError"}
           /\ result'.net = "ok" => result'.outcome = "ok"
           /\ result'.outcome = "ok" =>
                /\ executions'[execution_id].status = resp'.req.status
                /\ resp'.req.status # NoStatus
                /\ executions'[execution_id].ended_at # None
                /\ executions'[execution_id].steps = executions[execution_id].steps
           /\ steps'[current_step_id].ended_at = steps[current_step_id].ended_at
           /\ steps'[current_step_id].output = steps[current_step_id].output
           /\ steps'[current_step_id].evaluations = steps[current_step_id].evaluations
           /\ steps' = steps ]_vars

\* an execution ended with an evaluated step of its own still open
C26_Witness ==
  /\ result.call = "end_execution"
  /\ result.outcome = "ok"
  /\ current_step_id # None
  /\ steps[current_step_id].execution_id = resp.req.id
  /\ steps[current_step_id].ended_at = None
  /\ steps[current_step_id].evaluations # <<>>
  /\ executions[resp.req.id].status = "completed"
  /\ executions[resp.req.id].ended_at # None


\* ------------------------------------------- claims on the client's session

\* C27 (as stated): in every reachable state of the client a current step
\* implies a current execution, and after a successful end_execution the
\* client is idle: it has no current execution and no current step, so that
\* record_evaluation and end_step fail until a step is started.
C27_StepImpliesExecution ==
  /\ current_step_id # None => execution_id # None
  /\ (result.call = "end_execution" /\ result.outcome = "ok")
       => execution_id = None /\ current_step_id = None


\* ------------------------------------------ claims on status transitions

\* C28: UpdateExecution accepts every status transition. Whatever the status
\* of a stored execution is, running or not, an UpdateExecution that supplies a
\* non-empty status is answered with the execution and the status stored is
\* the one requested: completed -> running and failed -> completed included.
\* ended_at is left as it was when the request supplies none: an execution set
\* back to running keeps the ended_at it had.
C28_AnyStatusTransition ==
  [][ ( /\ resp'.op = "update_execution"
        /\ resp'.req.id \in DOMAIN executions
        /\ resp'.req.status # NoStatus )
        => /\ resp'.code = 200
           /\ executions'[resp'.req.id].status = resp'.req.status
           /\ resp'.body.status = resp'.req.status
           /\ resp'.req.ended_at = None
                => executions'[resp'.req.id].ended_at = executions[resp'.req.id].ended_at ]_vars

\* an execution that has an ended_at is set to running by a request that
\* supplies the status alone
C28_Witness ==
  /\ resp.op = "update_execution"
  /\ resp.code = 200
  /\ resp.req.status = "running"
  /\ resp.req.ended_at = None
  /\ executions[resp.req.id].status = "running"
  /\ executions[resp.req.id].ended_at # None
  /\ executions[resp.req.id].ended_at >= executions[resp.req.id].started_at


\* ------------------------------------------ claims on the storage object

\* C29 (as stated): after any sequence of create_execution, update_execution,
\* add_step and update_step calls on the storage, every step of the step index
\* is in the step list of a stored execution whose id is the step's
\* execution_id; add_step with an execution id that is not stored adds no step.
C29_NoStepOutsideExecution ==
  \A s \in DOMAIN steps :
    /\ steps[s].execution_id \in DOMAIN executions
    /\ \E i \in DOMAIN executions[steps[s].execution_id].steps :
         executions[steps[s].execution_id].steps[i] = s

\* C30: InMemoryStorage.update_step defaults nothing. On a stored step it sets
\* the attributes its keyword arguments name, to the values given, and leaves
\* every other attribute as it was: called without ended_at it leaves ended_at
\* unchanged. It changes no other step and no execution.
C30_StorageUpdateStepNoDefault ==
  [][ (resp'.op = "storage_update_step" /\ resp'.req.id \in DOMAIN steps)
        => /\ \A f \in DOMAIN steps[resp'.req.id] :
                steps'[resp'.req.id][f] =
                  IF f \in DOMAIN resp'.req.kwargs THEN resp'.req.kwargs[f]
                  ELSE steps[resp'.req.id][f]
           /\ "ended_at" \notin DOMAIN resp'.req.kwargs
                => steps'[resp'.req.id].ended_at = steps[resp'.req.id].ended_at
           /\ DOMAIN steps'[resp'.req.id] = DOMAIN steps[resp'.req.id]
           /\ \A s \in DOMAIN steps \ {resp'.req.id} : steps'[s] = steps[s]
           /\ DOMAIN steps' = DOMAIN steps
           /\ UNCHANGED <<executions, nextId>> ]_vars

\* an output written without an ended_at on a step that stays open
C30_Witness ==
  /\ resp.op = "storage_update_step"
  /\ resp.req.id \in DOMAIN steps
  /\ "output" \in DOMAIN resp.req.kwargs
  /\ "ended_at" \notin DOMAIN resp.req.kwargs
  /\ steps[resp.req.id].output.passed = 2
  /\ steps[resp.req.id].ended_at = None
  /\ steps[resp.req.id].started_at < now


\* ------------------------------------------- claims on the end of a step

\* C31: every UpdateStep answered with the step leaves it with ended_at set:
\* to the ended_at of the request when it carries one, and otherwise to the
\* server clock, whatever ended_at the step had. An update that carries only
\* an output closes the step, and a further update moves its end time.
C31_UpdateStepAlwaysStampsEnd ==
  [][ StepUpdated
        => /\ steps'[resp'.req.id].ended_at # None
           /\ steps'[resp'.req.id].ended_at =
                IF resp'.req.body.ended_at # None THEN resp'.req.body.ended_at ELSE now
           /\ resp'.body.ended_at = steps'[resp'.req.id].ended_at ]_vars

\* an update that carries an output and no ended_at, answered later than the
\* step was started: the step has the output and ends at the server time
C31_Witness ==
  /\ resp.op = "update_step"
  /\ resp.code = 200
  /\ resp.req.body.ended_at = None
  /\ resp.req.body.output.some
  /\ resp.req.body.output.dict # <<>>
  /\ steps[resp.req.id].output.passed = 2
  /\ steps[resp.req.id].ended_at = now
  /\ steps[resp.req.id].started_at < now


\* ------------------------------------------- claims on failed requests

\* a call on the client has just ended
CallEnded == result.call = "none" /\ result'.call # "none"

\* the request of the call was not answered: it or its response was lost
TransportFailed(r) == r.net \in {"lost_request", "lost_response"}

\* the request of the call was answered by the store with an error
ErrorAnswered(r, a) == r.net = "ok" /\ a.op # "none" /\ a.code # 200

\* C32: when the request of start_execution, start_step, record_evaluation,
\* end_step or end_execution fails, by a transport failure or by an error
\* response of the store, the call raises XRayError and execution_id and
\* current_step_id are what they were before the call: a failed end_step
\* leaves the step current, a failed end_execution the execution.
C32_FailedRequestKeepsSession ==
  [][ (CallEnded /\ (TransportFailed(result') \/ ErrorAnswered(result', resp')))
        => /\ result'.outcome = "XRayError"
           /\ execution_id' = execution_id
           /\ current_step_id' = current_step_id ]_vars

\* end_step answered 404 by a store that no longer holds the step: the step
\* and the execution are still current
C32_Witness ==
  /\ result.call = "end_step"
  /\ result.outcome = "XRayError"
  /\ result.net = "ok"
  /\ resp.code = 404
  /\ current_step_id # None
  /\ execution_id # None
  /\ current_step_id \notin DOMAIN steps


\* ------------------------------------------- claims on adding an evaluation

\* AddEvaluation has been answered with the step
EvaluationAdded == resp'.op = "add_evaluation" /\ resp'.code = 200

\* C38: AddEvaluation on a step appends the evaluation to that step's list
\* and changes nothing else: the other fields of the step, output and
\* ended_at included, every other step, and every execution, with its status,
\* ended_at and step order, are as before. The step returned, which is the
\* step GetStep finds, is the step shown in the step list of its execution.
C38_AddEvaluationFrame ==
  [][ EvaluationAdded
        => /\ steps'[resp'.req.id].evaluations =
                Append(steps[resp'.req.id].evaluations, resp'.req.body)
           /\ \A f \in DOMAIN steps[resp'.req.id] \ {"evaluations"} :
                steps'[resp'.req.id][f] = steps[resp'.req.id][f]
           /\ DOMAIN steps' = DOMAIN steps
           /\ \A s \in DOMAIN steps \ {resp'.req.id} : steps'[s] = steps[s]
           /\ UNCHANGED <<executions, nextId>>
           /\ resp'.body = steps'[resp'.req.id]
           /\ \E i \in DOMAIN executions'[resp'.body.execution_id].steps :
                SerializeExecution(executions', steps', resp'.body.execution_id).steps[i]
                  = resp'.body ]_vars

\* an evaluation added to the second step of a completed execution, the step
\* closed with an output, the first step evaluated too
C38_Witness ==
  /\ resp.op = "add_evaluation"
  /\ resp.code = 200
  /\ steps[resp.req.id].ended_at # None
  /\ steps[resp.req.id].output.passed = 2
  /\ executions[resp.body.execution_id].status = "completed"
  /\ Len(executions[resp.body.execution_id].steps) = 2
  /\ executions[resp.body.execution_id].steps[2] = resp.req.id
  /\ steps[executions[resp.body.execution_id].steps[1]].evaluations # <<>>


\* ------------------------------------------- claims on the kinds of error

\* the exception a call on the client raises when its request fails in
\* transport, and the one it raises when it is called in the wrong state
TransportErrorKind == "XRayError"
InvalidStateKind == "ValueError"

\* the request of the call was answered by the store with NotFound
NotFoundAnswered == ErrorAnswered(result, resp) /\ resp.code = 404

\* C39 (as stated): a request answered with NotFound, a request that fails in
\* transport and a call in an illegal state surface to the caller of the
\* client as three different kinds of error.
C39_DistinctErrorKinds ==
  /\ TransportFailed(result) => result.outcome = TransportErrorKind
  /\ result.outcome = InvalidStateKind => result.net = "none"
  /\ NotFoundAnswered => result.outcome \notin {TransportErrorKind, InvalidStateKind}


\* ------------------------------------------------------ claims on the helpers

\* a helper has returned: its callbacks did not fail and its requests were
\* answered
HelperReturned ==
  /\ frame.fn \in {"filter_step", "rank_step", "transform_step", "select_step"}
  /\ frame.pc = "returned"

\* the call opened one step and closed it once, and the client is left with no
\* current step
OneStepOpenedAndClosed ==
  /\ frame.n.start_step = 1
  /\ DOMAIN steps \ frame.known = {frame.opened}
  /\ frame.n.end_step = 1
  /\ steps[frame.opened].ended_at # None
  /\ current_step_id = None

\* the evaluations of the step the call opened are those of `items`, one per
\* item and in that order
EvaluatedInOrder(items) ==
  LET evaluations == steps[frame.opened].evaluations
  IN /\ Len(evaluations) = Len(items)
     /\ \A j \in 1..Len(items) : evaluations[j].entity_id = EntityId(items[j])

\* C33 (as stated): every helper called on n items whose callbacks do not fail
\* opens exactly one step, records exactly n evaluations, one per item in
\* iteration order, and closes the step exactly once, leaving no current step.
C33_HelperRecordsEveryItem ==
  HelperReturned =>
    /\ OneStepOpenedAndClosed
    /\ Len(steps[frame.opened].evaluations) = Len(frame.args)
    /\ EvaluatedInOrder(frame.items)

\* C33 (amended): every helper whose callbacks do not fail opens exactly one
\* step and closes it exactly once, leaving no current step; filter_step and
\* transform_step record one evaluation per item in input order, rank_step one
\* per item in ranked order, and select_step exactly one evaluation, that of
\* the selected item, however many items it was given.
C33_HelperOneStepItsEvaluations ==
  HelperReturned =>
    /\ OneStepOpenedAndClosed
    /\ frame.fn \in {"filter_step", "transform_step"} => EvaluatedInOrder(frame.args)
    /\ frame.fn = "rank_step" =>
         /\ Len(frame.items) = Len(frame.args)
         /\ EvaluatedInOrder(frame.items)
    /\ frame.fn = "select_step" =>
         /\ Len(steps[frame.opened].evaluations) = 1
         /\ steps[frame.opened].evaluations[1].entity_id = EntityId(frame.ret[1])

\* select_step has returned from a call with two candidates
C33_Witness ==
  /\ HelperReturned
  /\ frame.fn = "select_step"
  /\ Len(frame.args) = 2
  /\ Len(steps[frame.opened].evaluations) = 1


\* the items at the positions where filter_fn returned true, in input order
RECURSIVE Accepted(_, _)
Accepted(items, verdicts) ==
  IF items = <<>> THEN <<>>
  ELSE LET n == Len(items)
           front == Accepted(SubSeq(items, 1, n - 1), SubSeq(verdicts, 1, n - 1))
       IN IF verdicts[n] THEN Append(front, items[n]) ELSE front

\* C36: filter_step returns exactly the items for which filter_fn returned
\* true, in input order; the evaluation of each item has passed equal to
\* filter_fn's result; the summary output handed to end_step has
\* passed + failed = total_evaluated = the number of items.
C36_FilterStepPartitionsItems ==
  (HelperReturned /\ frame.fn = "filter_step") =>
    LET evaluations == steps[frame.opened].evaluations
        output == written.output[frame.opened]
    IN /\ frame.ret = Accepted(frame.args, frame.verdicts)
       /\ Len(evaluations) = Len(frame.args)
       /\ \A j \in 1..Len(frame.args) : evaluations[j].passed = frame.verdicts[j]
       /\ output.passed + output.failed = output.total_evaluated
       /\ output.total_evaluated = Len(frame.args)
       /\ output.passed = Len(frame.ret)

\* filter_step has returned the second of two items, the first having failed
C36_Witness ==
  /\ HelperReturned
  /\ frame.fn = "filter_step"
  /\ frame.verdicts = <<FALSE, TRUE>>
  /\ frame.ret = <<frame.args[2]>>
  /\ written.output[frame.opened].failed = 1



\* the program calls fn: the step from outside of every call to its frame
Called(fn) == ~Running /\ frame' # frame /\ frame'.fn = fn

\* runner.execute_step is called with a step type that has no handler
UnregisteredCalled ==
  /\ Called("execute_step")
  /\ frame'.configs[1].type \notin step_handlers

\* the call was refused with ValueError before start_step: no request was
\* sent, no step created, and the session of the client is as it was
RefusedBeforeStartStep ==
  /\ frame'.pc = "raised"
  /\ frame'.kind = "ValueError"
  /\ frame'.n = NoCalls
  /\ UNCHANGED <<executions, steps, nextId, execution_id, current_step_id, scopes>>

\* C37 (as stated): select_step on an empty item list, and execute_step with
\* a step type that has no registered handler, raise ValueError before
\* start_step is called; no step is created and the session state is unchanged.
C37_EmptyOrUnregisteredRefused ==
  [][ ((Called("select_step") /\ frame'.args = <<>>) \/ UnregisteredCalled)
        => RefusedBeforeStartStep ]_vars

\* C37 (amended): select_step on an empty item list raises ValueError before
\* start_step when no select_fn is given or select_fn returns nothing for the
\* list, and execute_step raises it for a step type that has no registered
\* handler; no step is created and the session state is unchanged. With a
\* select_fn that raises, its own exception leaves select_step instead, also
\* before start_step.
C37_NothingSelectedOrUnregisteredRefused ==
  [][ /\ ( \/ /\ Called("select_step")
              /\ frame'.args = <<>>
              /\ ~frame'.select_fn.raises
              /\ frame'.select_fn.ret = <<>>
           \/ UnregisteredCalled )
         => RefusedBeforeStartStep
      /\ (Called("select_step") /\ frame'.select_fn.raises)
         => /\ frame'.pc = "raised"
            /\ frame'.kind = "Exception"
            /\ frame'.n = NoCalls
            /\ UNCHANGED <<executions, steps, nextId, execution_id, current_step_id, scopes>>
    ]_vars

\* select_step was refused on an empty list, and execute_step for want of a
\* handler, while the client had a current execution
C37_Witness ==
  /\ execution_id # None
  /\ frame.fn \in {"select_step", "execute_step"}
  /\ frame.pc = "raised"
  /\ frame.kind = "ValueError"
  /\ frame.n = NoCalls
  /\ \/ frame.fn = "select_step" /\ frame.args = <<>>
     \/ frame.fn = "execute_step" /\ frame.configs[1].type \notin step_handlers


\* the functions that run their body in a with-block of StepContext
Scoped ==
  {"with", "trace_function", "execute_step",
   "filter_step", "rank_step", "transform_step", "select_step"}

\* the with-block of the call is left while an exception of its body is in
\* flight, and the request that closes the step is answered
LeftByException ==
  /\ Running
  /\ frame.fn \in Scoped
  /\ exc # NoExc
  /\ frame' # frame
  /\ result'.call = "end_step" /\ result'.outcome = "ok"

\* C34: a scoped step never suppresses the exception of its body: when the
\* body raises and closing the step succeeds, the same exception reaches the
\* caller of the with-block, of the trace_function wrapper, of execute_step
\* and of the helpers, after the step has been closed.
C34_BodyExceptionReachesCaller ==
  [][ LeftByException =>
        /\ frame'.pc = "raised"
        /\ frame'.error = exc
        /\ frame'.kind = "Exception"
        /\ steps'[frame.opened].ended_at # None
        /\ current_step_id' = None
        /\ scopes' = SubSeq(scopes, 1, Len(scopes) - 1) ]_vars

\* the function wrapped by trace_function raised, its step was closed and the
\* exception has left the wrapper
C34_Witness ==
  /\ frame.fn = "trace_function"
  /\ frame.pc = "raised"
  /\ frame.kind = "Exception"
  /\ frame.error \in CallbackErrors
  /\ frame.n.end_step = 1
  /\ steps[frame.opened].ended_at # None

\* ------------------------------------------------------- claims on the runner

\* the steps the pipeline has opened are in the store
Piped == frame.fn = "execute_pipeline" /\ frame.opens # <<>>

\* the steps of the execution that the pipeline found there are not its own
OpenedSince(e) == SelectSeq(executions[e].steps, LAMBDA s : s \notin frame.known)

\* C35: execute_pipeline runs the step configurations strictly in list order
\* and closes each step before the next is opened, so the execution's step
\* list matches configuration order; if the handler of one step raises, that
\* step is still closed, the exception propagates and no later configuration
\* is started.
C35_PipelineInConfigurationOrder ==
  Piped =>
    LET opens == frame.opens
        last == opens[Len(opens)]
        inside == frame.pc \in {"body", "loop", "output"}
    IN /\ Len(opens) = IF inside \/ (frame.pc = "raised" /\ frame.kind = "Exception")
                         THEN frame.k + 1 ELSE frame.k
       /\ Len(opens) <= Len(frame.configs)
       /\ \A j \in 1..Len(opens) : steps[opens[j]].type = frame.configs[j].type
       /\ OpenedSince(steps[last].execution_id) = opens
       /\ \A j \in 1..(Len(opens) - 1) : steps[opens[j]].ended_at # None
       /\ IF inside
            THEN current_step_id = last /\ steps[last].ended_at = None
            ELSE current_step_id = None /\ steps[last].ended_at # None
       /\ (frame.pc = "raised" /\ frame.kind = "Exception") => frame.error \in CallbackErrors
       /\ frame.pc = "returned" =>
            Len(opens) = Len(frame.configs) /\ Len(frame.outputs) = Len(frame.configs)

\* the handler of the first of two configurations raised: its step is closed,
\* the exception has left execute_pipeline and the second was not started
C35_Witness ==
  /\ Piped
  /\ Len(frame.configs) = 2
  /\ frame.pc = "raised"
  /\ frame.kind = "Exception"
  /\ Len(frame.opens) = 1
  /\ steps[frame.opens[1]].ended_at # None
  /\ NumSteps = 1
====
